---- MODULE Spec2Model ----
(***************************************************************************)
(* The blocking NotificationService of vintasend over the FakeFileBackend  *)
(* and the stub adapters: the lifecycle of a notification (create, update, *)
(* send, send_pending_notifications, delayed_send, mark_read, cancel).     *)
(***************************************************************************)
EXTENDS Integers, Sequences, FiniteSets, TLC

VARIABLES
    notifications,          \* FakeFileBackend.notifications: the stored records, in order
    detached,               \* Notification objects a caller still holds after cancel_notification
    contexts,               \* Contexts._contexts: context name -> registered function
    notification_adapters,  \* NotificationService.notification_adapters
    sent_emails,            \* per adapter: FakeEmailAdapter.sent_emails
    now,                    \* datetime.datetime.now(tz=utc)
    next_id,                \* the next fresh id (uuid.uuid4())
    ops,                    \* service calls made so far
    last,                   \* what the most recent service call did
    tasks,                  \* the send tasks of the cooperative send_pending_notifications
    lock,                   \* asyncio.Lock._locked of the lock that call creates
    gather                  \* where the cooperative send_pending_notifications call is

vars == <<notifications, detached, contexts, notification_adapters, sent_emails,
          now, next_id, ops, last, tasks, lock, gather>>

-----------------------------------------------------------------------------
(* Bounds of the model *)

MaxNotifications == 2
MaxOps == 2
MaxClock == 2
MaxTasks == 2
MaxRegistrations == 3

-----------------------------------------------------------------------------
(* Values *)

\* Python's None, and an optional value that is set
None == <<>>
Some(x) == <<x>>

PENDING_SEND == "PENDING_SEND"
SENT == "SENT"
FAILED == "FAILED"
READ == "READ"
CANCELLED == "CANCELLED"

EMAIL == "EMAIL"
IN_APP == "IN_APP"

\* the exception classes; NoError is a call that returned
NoError == "NoError"
NotificationContextGenerationError == "NotificationContextGenerationError"
NotificationUpdateError == "NotificationUpdateError"
NotificationMarkFailedError == "NotificationMarkFailedError"
NotificationMarkSentError == "NotificationMarkSentError"
NotificationNotFoundError == "NotificationNotFoundError"
NotificationSendError == "NotificationSendError"
AdapterError == "Exception"

\* except NotificationUpdateError: catches the class and its subclasses
IsNotificationUpdateError(e) ==
    e \in {NotificationUpdateError, NotificationMarkFailedError, NotificationMarkSentError}

\* the stub template renderers: the second one raises in render
FakeTemplateRenderer == "FakeTemplateRenderer"
FakeTemplateRendererWithException == "FakeTemplateRendererWithException"

\* the stub adapter classes
FakeEmailAdapter ==
    [notification_type |-> EMAIL, deferred |-> FALSE, template_renderer |-> FakeTemplateRenderer,
     adapter_import_str |-> "vintasend.services.notification_adapters.stubs.fake_adapter.FakeEmailAdapter"]
FakeAsyncEmailAdapter ==
    [notification_type |-> EMAIL, deferred |-> TRUE, template_renderer |-> FakeTemplateRenderer,
     adapter_import_str |-> "vintasend.services.notification_adapters.stubs.fake_adapter.FakeAsyncEmailAdapter"]
FakeInAppAdapter ==
    [notification_type |-> IN_APP, deferred |-> FALSE, template_renderer |-> FakeTemplateRenderer,
     adapter_import_str |-> "vintasend.services.notification_adapters.stubs.fake_in_app_adapter.FakeInAppAdapter"]

\* the adapter lists a service is constructed with
AdapterConfigs ==
    { <<FakeEmailAdapter>>,
      <<FakeInAppAdapter>>,
      <<FakeInAppAdapter, FakeEmailAdapter,
        [FakeEmailAdapter EXCEPT !.template_renderer = FakeTemplateRendererWithException]>>,
      <<FakeInAppAdapter, FakeAsyncEmailAdapter>> }

\* the context function the tests register: raises unless test == "test"
create_notification_context(context_kwargs) ==
    IF DOMAIN context_kwargs # {"test"}
    THEN [raised |-> "TypeError", value |-> None]
    ELSE IF context_kwargs.test # "test"
    THEN [raised |-> "ValueError", value |-> None]
    ELSE [raised |-> NoError, value |-> Some([test |-> "test"])]

\* a second function the tests register under the same key: it names one
\* parameter, context_kwargs, and returns it
test_context(context_kwargs) ==
    IF DOMAIN context_kwargs # {"context_kwargs"}
    THEN [raised |-> "TypeError", value |-> None]
    ELSE [raised |-> NoError, value |-> Some(context_kwargs.context_kwargs)]

ContextFunctions == {"create_notification_context", "test_context"}

call_context_function(func, context_kwargs) ==
    CASE func = "create_notification_context" -> create_notification_context(context_kwargs)
      [] func = "test_context" -> test_context(context_kwargs)

\* what callers pass in
NotificationTypeInputs == {EMAIL}
ContextInputs ==
    { [context_name |-> "test_context", context_kwargs |-> [test |-> "test"]],
      [context_name |-> "non_registered_context", context_kwargs |-> [test |-> "test"]] }
SendAfterInputs == {None} \cup {Some(t) : t \in 2..MaxClock}
\* the keyword arguments of update_notification: a title alone (no modelled
\* field changes), or a new send_after
UpdateInputs == {{}} \cup {{<<"send_after", s>>} : s \in SendAfterInputs}
ContextDictInputs == {[test |-> "test"]}
NoFaults == [patched |-> {}, send_raises |-> {}]

\* the backend methods a test patches to raise NotificationUpdateError
PatchableMethods == {"mark_pending_as_sent", "mark_pending_as_failed", "store_context_used"}

\* the faults of one service call: at most one backend method patched to raise
\* NotificationUpdateError, and the (adapter, notification) pairs whose send raises
Envs(ids) ==
    [patched : {{}} \cup {{m} : m \in PatchableMethods},
     send_raises : SUBSET ids]

-----------------------------------------------------------------------------
(* The record of one service call *)

Call(fn, adapter, id, context, result) ==
    [fn |-> fn, adapter |-> adapter, id |-> id, context |-> context, result |-> result]

\* the running state of a service call: the backend, the adapters' logs,
\* the calls made so far and the exception being raised, if any
World(ns, se) ==
    [notifications |-> ns, sent_emails |-> se, calls |-> <<>>, raised |-> NoError]

Raise(w, e) == [w EXCEPT !.raised = e]
Log(w, c) == [w EXCEPT !.calls = Append(@, c)]

-----------------------------------------------------------------------------
(* FakeFileBackend *)

\* the position of the first stored notification with this id, 0 when there is none
IndexOf(ns, notification_id) ==
    IF \E i \in 1..Len(ns) : ns[i].id = notification_id
    THEN CHOOSE i \in 1..Len(ns) :
            /\ ns[i].id = notification_id
            /\ \A j \in 1..(i - 1) : ns[j].id # notification_id
    ELSE 0

\* get_notification that gives the first notification for an id it does not find
get_notification_falls_back(ns, notification_id) ==
    IF IndexOf(ns, notification_id) = 0
    THEN IF ns = <<>> THEN [raised |-> NotificationNotFoundError, index |-> 0]
         ELSE [raised |-> NoError, index |-> 1]
    ELSE [raised |-> NoError, index |-> IndexOf(ns, notification_id)]

get_notification(ns, notification_id) ==
    IF IndexOf(ns, notification_id) = 0
    THEN [raised |-> NotificationNotFoundError, index |-> 0]
    ELSE [raised |-> NoError, index |-> IndexOf(ns, notification_id)]

\* a status-marking method: the patched fault, else lookup and assignment
SetStatus(w, fn, notification_id, status, env) ==
    IF fn \in env.patched
    THEN Raise(Log(w, Call(fn, 0, notification_id, None, NotificationUpdateError)),
               NotificationUpdateError)
    ELSE LET got == get_notification(w.notifications, notification_id) IN
         IF got.raised # NoError
         THEN Raise(Log(w, Call(fn, 0, notification_id, None, got.raised)), got.raised)
         ELSE Log([w EXCEPT !.notifications[got.index].status = status],
                  Call(fn, 0, notification_id, None, NoError))

mark_pending_as_sent(w, notification_id, env) ==
    SetStatus(w, "mark_pending_as_sent", notification_id, SENT, env)

mark_pending_as_failed(w, notification_id, env) ==
    SetStatus(w, "mark_pending_as_failed", notification_id, FAILED, env)

\* mark_sent_as_read that stores the status SENT again
mark_sent_as_read_marks_sent(w, notification_id, env) ==
    SetStatus(w, "mark_sent_as_read", notification_id, SENT, env)

mark_sent_as_read(w, notification_id, env) ==
    SetStatus(w, "mark_sent_as_read", notification_id, READ, env)

\* store_context_used that reports success and stores nothing
store_context_used_stores_nothing(w, notification_id, context, adapter_import_str, env) ==
    Log(w, Call("store_context_used", 0, notification_id, Some(context), NoError))

store_context_used(w, notification_id, context, adapter_import_str, env) ==
    IF "store_context_used" \in env.patched
    THEN Raise(Log(w, Call("store_context_used", 0, notification_id, Some(context),
                           NotificationUpdateError)),
               NotificationUpdateError)
    ELSE LET got == get_notification(w.notifications, notification_id) IN
         IF got.raised # NoError
         THEN Raise(Log(w, Call("store_context_used", 0, notification_id, Some(context),
                                got.raised)),
                    got.raised)
         ELSE Log([w EXCEPT !.notifications[got.index].context_used = Some(context),
                            !.notifications[got.index].adapter_used = Some(adapter_import_str)],
                  Call("store_context_used", 0, notification_id, Some(context), NoError))

persist_notification(ns, id, notification_type, context, send_after) ==
    Append(ns, [id |-> id,
                notification_type |-> notification_type,
                context_name |-> context.context_name,
                context_kwargs |-> context.context_kwargs,
                send_after |-> send_after,
                status |-> PENDING_SEND,
                context_used |-> None,
                adapter_used |-> None])

\* setattr(notification, key, value) for every (key, value) of update_data
ApplyUpdate(notification, update_data) ==
    [k \in DOMAIN notification |->
        IF \E kv \in update_data : kv[1] = k
        THEN (CHOOSE kv \in update_data : kv[1] = k)[2]
        ELSE notification[k]]

persist_notification_update(w, notification_id, update_data) ==
    LET got == get_notification(w.notifications, notification_id) IN
    IF got.raised # NoError
    THEN Raise(Log(w, Call("persist_notification_update", 0, notification_id, None, got.raised)),
               got.raised)
    ELSE Log([w EXCEPT !.notifications[got.index] = ApplyUpdate(@, update_data)],
             Call("persist_notification_update", 0, notification_id, None, NoError))

\* cancel_notification that finds the notification and leaves it in the list
backend_cancel_notification_removes_nothing(w, notification_id) ==
    LET got == get_notification(w.notifications, notification_id) IN
    IF got.raised # NoError
    THEN Raise(Log(w, Call("cancel_notification", 0, notification_id, None, got.raised)),
               got.raised)
    ELSE Log(w, Call("cancel_notification", 0, notification_id, None, NoError))

backend_cancel_notification(w, notification_id) ==
    LET got == get_notification(w.notifications, notification_id) IN
    IF got.raised # NoError
    THEN Raise(Log(w, Call("cancel_notification", 0, notification_id, None, got.raised)),
               got.raised)
    ELSE Log([w EXCEPT !.notifications =
                 SubSeq(@, 1, got.index - 1) \o SubSeq(@, got.index + 1, Len(@))],
             Call("cancel_notification", 0, notification_id, None, NoError))

IsDue(send_after, clock) == send_after = None \/ send_after[1] <= clock

\* get_all_pending_notifications without the test of send_after
get_all_pending_notifications_ignores_send_after(ns, clock) ==
    LET Keep(n) == n.status = PENDING_SEND IN SelectSeq(ns, Keep)

\* get_all_pending_notifications without the test of the status
get_all_pending_notifications_any_status(ns, clock) ==
    LET Keep(n) == n.send_after = None \/ n.send_after[1] <= clock IN SelectSeq(ns, Keep)

get_all_pending_notifications(ns, clock) ==
    LET Keep(n) == n.status = PENDING_SEND /\ (n.send_after = None \/ n.send_after[1] <= clock)
    IN SelectSeq(ns, Keep)

\* get_all_future_notifications that keeps a notification due at this instant
get_all_future_notifications_from_now(ns, clock) ==
    LET Keep(n) == n.status = PENDING_SEND /\ (n.send_after # None /\ n.send_after[1] >= clock)
    IN SelectSeq(ns, Keep)

get_all_future_notifications(ns, clock) ==
    LET Keep(n) == n.status = PENDING_SEND /\ (n.send_after # None /\ n.send_after[1] > clock)
    IN SelectSeq(ns, Keep)

-----------------------------------------------------------------------------
(* The stub adapters *)

\* template_renderer.render raises
render_raises(adapter) == adapter.template_renderer = FakeTemplateRendererWithException

\* FakeEmailAdapter.send / FakeInAppAdapter.send render and record the message;
\* FakeAsyncEmailAdapter.send does nothing (the delivery is left to delayed_send)
adapter_send(w, i, notification, context, env) ==
    IF \/ notification.id \in env.send_raises
       \/ ~notification_adapters[i].deferred /\ render_raises(notification_adapters[i])
    THEN Raise(Log(w, Call("adapter.send", i, notification.id, Some(context), AdapterError)),
               AdapterError)
    ELSE Log(IF notification_adapters[i].deferred
             THEN w
             ELSE [w EXCEPT !.sent_emails[i] = Append(@, <<notification.id, context>>)],
             Call("adapter.send", i, notification.id, Some(context), NoError))

\* FakeAsyncEmailAdapter.delayed_send rebuilds the notification and sends it
adapter_delayed_send(w, i, notification_dict, context_dict, env) ==
    IF \/ notification_dict.id \in env.send_raises
       \/ render_raises(notification_adapters[i])
    THEN Raise(Log(w, Call("adapter.delayed_send", i, notification_dict.id,
                           Some(context_dict), AdapterError)),
               AdapterError)
    ELSE Log([w EXCEPT !.sent_emails[i] = Append(@, <<notification_dict.id, context_dict>>)],
             Call("adapter.delayed_send", i, notification_dict.id, Some(context_dict), NoError))

-----------------------------------------------------------------------------
(* NotificationService *)

\* a registration that keeps what the key already holds
register_function_keeps_first(registry, key, func) ==
    [k \in DOMAIN registry \cup {key} |-> IF k \in DOMAIN registry THEN registry[k] ELSE func]

\* Contexts.register_function: the assignment replaces what the key held
register_function(registry, key, func) ==
    [k \in DOMAIN registry \cup {key} |-> IF k = key THEN func ELSE registry[k]]

\* Contexts.get_function: dict.get, None for a key that holds nothing
get_function(registry, key) ==
    IF key \in DOMAIN registry THEN Some(registry[key]) ELSE None

get_notification_context(notification) ==
    IF get_function(contexts, notification.context_name) = None
    THEN [raised |-> NotificationContextGenerationError, value |-> None]
    ELSE LET r == call_context_function(get_function(contexts, notification.context_name)[1],
                                        notification.context_kwargs)
         IN IF r.raised # NoError
            THEN [raised |-> NotificationContextGenerationError, value |-> None]
            ELSE r

\* the except clause without its final raise
HandleSendFailure_swallows(w, notification_id, env) ==
    LET w1 == mark_pending_as_failed(Raise(w, NoError), notification_id, env) IN
    IF IsNotificationUpdateError(w1.raised) THEN Raise(w1, NotificationMarkFailedError)
    ELSE w1

\* the except clause of a failed adapter call: mark failed, then raise
HandleSendFailure(w, notification_id, env) ==
    LET w1 == mark_pending_as_failed(Raise(w, NoError), notification_id, env) IN
    IF IsNotificationUpdateError(w1.raised) THEN Raise(w1, NotificationMarkFailedError)
    ELSE IF w1.raised # NoError THEN w1
    ELSE Raise(w1, NotificationSendError)

\* after a delivery: mark sent, and leave the context used unset
MarkDelivered_status_only(w, notification_id, context, adapter_import_str, env) ==
    LET w1 == mark_pending_as_sent(w, notification_id, env)
    IN IF IsNotificationUpdateError(w1.raised) THEN Raise(w1, NotificationMarkSentError)
       ELSE w1

\* after a delivery: mark sent and store the context used
MarkDelivered(w, notification_id, context, adapter_import_str, env) ==
    LET w1 == mark_pending_as_sent(w, notification_id, env)
        w2 == IF w1.raised = NoError
              THEN store_context_used(w1, notification_id, context, adapter_import_str, env)
              ELSE w1
    IN IF IsNotificationUpdateError(w2.raised) THEN Raise(w2, NotificationMarkSentError)
       ELSE w2

\* the loop without its return after the dispatch to a deferred-capable adapter
RECURSIVE SendLoop_marks_deferred(_, _, _, _, _)
SendLoop_marks_deferred(w, notification, context, i, env) ==
    IF i > Len(notification_adapters) THEN w
    ELSE IF notification_adapters[i].notification_type # notification.notification_type
    THEN SendLoop_marks_deferred(w, notification, context, i + 1, env)
    ELSE LET w1 == adapter_send(w, i, notification, context, env) IN
         IF w1.raised # NoError THEN HandleSendFailure(w1, notification.id, env)
         ELSE LET w2 == MarkDelivered(w1, notification.id, context,
                                      notification_adapters[i].adapter_import_str, env)
              IN IF w2.raised # NoError THEN w2
                 ELSE SendLoop_marks_deferred(w2, notification, context, i + 1, env)

\* the loop without its test of the adapter's notification_type
RECURSIVE SendLoop_any_adapter(_, _, _, _, _)
SendLoop_any_adapter(w, notification, context, i, env) ==
    IF i > Len(notification_adapters) THEN w
    ELSE LET w1 == adapter_send(w, i, notification, context, env) IN
         IF w1.raised # NoError THEN HandleSendFailure(w1, notification.id, env)
         ELSE IF notification_adapters[i].deferred THEN w1
         ELSE LET w2 == MarkDelivered(w1, notification.id, context,
                                      notification_adapters[i].adapter_import_str, env)
              IN IF w2.raised # NoError THEN w2
                 ELSE SendLoop_any_adapter(w2, notification, context, i + 1, env)

RECURSIVE SendLoop(_, _, _, _, _)
SendLoop(w, notification, context, i, env) ==
    IF i > Len(notification_adapters) THEN w
    ELSE IF notification_adapters[i].notification_type # notification.notification_type
    THEN SendLoop(w, notification, context, i + 1, env)
    ELSE LET w1 == adapter_send(w, i, notification, context, env) IN
         IF w1.raised # NoError THEN HandleSendFailure(w1, notification.id, env)
         ELSE IF notification_adapters[i].deferred THEN w1
         ELSE LET w2 == MarkDelivered(w1, notification.id, context,
                                      notification_adapters[i].adapter_import_str, env)
              IN IF w2.raised # NoError THEN w2
                 ELSE SendLoop(w2, notification, context, i + 1, env)

\* send returning on a context failure without marking the notification
send_without_marking_failed(w, notification, env) ==
    LET got == get_notification_context(notification)
        w1 == Log(w, Call("get_notification_context", 0, notification.id, got.value, got.raised))
    IN IF got.raised # NoError THEN w1
       ELSE SendLoop(w1, notification, got.value[1], 1, env)

send(w, notification, env) ==
    LET got == get_notification_context(notification)
        w1 == Log(w, Call("get_notification_context", 0, notification.id, got.value, got.raised))
    IN IF got.raised # NoError
       THEN LET w2 == mark_pending_as_failed(w1, notification.id, env) IN
            IF IsNotificationUpdateError(w2.raised)
            THEN Raise(w2, NotificationMarkFailedError)
            ELSE w2
       ELSE SendLoop(w1, notification, got.value[1], 1, env)

\* the loop without its test of the deferred capability
RECURSIVE DelayedSendLoop_any_adapter(_, _, _, _, _)
DelayedSendLoop_any_adapter(w, notification_dict, context_dict, i, env) ==
    IF i > Len(notification_adapters) THEN w
    ELSE IF notification_adapters[i].notification_type # notification_dict.notification_type
    THEN DelayedSendLoop_any_adapter(w, notification_dict, context_dict, i + 1, env)
    ELSE LET w1 == adapter_delayed_send(w, i, notification_dict, context_dict, env) IN
         IF w1.raised # NoError THEN HandleSendFailure(w1, notification_dict.id, env)
         ELSE LET w2 == MarkDelivered(w1, notification_dict.id, context_dict,
                                      notification_adapters[i].adapter_import_str, env)
              IN IF w2.raised # NoError THEN w2
                 ELSE DelayedSendLoop_any_adapter(w2, notification_dict, context_dict,
                                                  i + 1, env)

RECURSIVE DelayedSendLoop(_, _, _, _, _)
DelayedSendLoop(w, notification_dict, context_dict, i, env) ==
    IF i > Len(notification_adapters) THEN w
    ELSE IF notification_adapters[i].notification_type # notification_dict.notification_type
    THEN DelayedSendLoop(w, notification_dict, context_dict, i + 1, env)
    ELSE IF ~notification_adapters[i].deferred THEN w
    ELSE LET w1 == adapter_delayed_send(w, i, notification_dict, context_dict, env) IN
         IF w1.raised # NoError THEN HandleSendFailure(w1, notification_dict.id, env)
         ELSE LET w2 == MarkDelivered(w1, notification_dict.id, context_dict,
                                      notification_adapters[i].adapter_import_str, env)
              IN IF w2.raised # NoError THEN w2
                 ELSE DelayedSendLoop(w2, notification_dict, context_dict, i + 1, env)

delayed_send(w, notification_dict, context_dict, env) ==
    DelayedSendLoop(w, notification_dict, context_dict, 1, env)

\* the loop without its except clauses: the first failing send ends it
RECURSIVE SendPendingLoop_aborts(_, _, _, _)
SendPendingLoop_aborts(r, pending, k, env) ==
    IF k > Len(pending) THEN r
    ELSE LET w1 == send(r.w, pending[k], env) IN
         IF w1.raised = NoError
         THEN SendPendingLoop_aborts([r EXCEPT !.w = w1, !.notifications_sent = @ + 1],
                                     pending, k + 1, env)
         ELSE [r EXCEPT !.w = w1]

\* the loop of send_pending_notifications: r carries the world and the two counters
RECURSIVE SendPendingLoop(_, _, _, _)
SendPendingLoop(r, pending, k, env) ==
    IF k > Len(pending) THEN r
    ELSE LET w1 == send(r.w, pending[k], env) IN
         IF w1.raised \in {NotificationSendError, NotificationMarkFailedError}
         THEN SendPendingLoop([r EXCEPT !.w = Raise(w1, NoError),
                                        !.notifications_failed = @ + 1],
                              pending, k + 1, env)
         ELSE IF w1.raised \in {NotificationMarkSentError, NoError}
         THEN SendPendingLoop([r EXCEPT !.w = Raise(w1, NoError),
                                        !.notifications_sent = @ + 1],
                              pending, k + 1, env)
         ELSE [r EXCEPT !.w = w1]

send_pending_notifications(w, clock, env) ==
    SendPendingLoop([w |-> w, notifications_sent |-> 0, notifications_failed |-> 0],
                    get_all_pending_notifications(w.notifications, clock), 1, env)

\* create_notification without the call of send
create_notification_never_sends(w, id, notification_type, context, send_after, clock, env) ==
    Log([w EXCEPT !.notifications =
            persist_notification(w.notifications, id, notification_type, context, send_after)],
        Call("persist_notification", 0, id, None, NoError))

\* create_notification calling send whatever send_after is
create_notification_always_sends(w, id, notification_type, context, send_after, clock, env) ==
    LET ns == persist_notification(w.notifications, id, notification_type, context, send_after)
    IN send(Log([w EXCEPT !.notifications = ns],
                Call("persist_notification", 0, id, None, NoError)),
            ns[Len(ns)], env)

\* create_notification that keeps the record only when its send returned
create_notification_persists_last(w, id, notification_type, context, send_after, clock, env) ==
    LET ns == persist_notification(w.notifications, id, notification_type, context, send_after)
        w1 == IF IsDue(send_after, clock) THEN send(w, ns[Len(ns)], env) ELSE w
    IN IF w1.raised # NoError THEN w1
       ELSE Log([w1 EXCEPT !.notifications =
                    persist_notification(w1.notifications, id, notification_type, context,
                                         send_after)],
                Call("persist_notification", 0, id, None, NoError))

create_notification(w, id, notification_type, context, send_after, clock, env) ==
    LET ns == persist_notification(w.notifications, id, notification_type, context, send_after)
        w1 == Log([w EXCEPT !.notifications = ns],
                  Call("persist_notification", 0, id, None, NoError))
        notification == ns[Len(ns)]
    IN IF IsDue(notification.send_after, clock) THEN send(w1, notification, env) ELSE w1

\* update_notification without its send
update_notification_never_sends(w, notification_id, update_data, clock, env) ==
    persist_notification_update(w, notification_id, update_data)

\* update_notification without its test of send_after
update_notification_always_sends(w, notification_id, update_data, clock, env) ==
    LET w1 == persist_notification_update(w, notification_id, update_data) IN
    IF w1.raised # NoError THEN w1
    ELSE send(w1, w1.notifications[IndexOf(w1.notifications, notification_id)], env)

update_notification(w, notification_id, update_data, clock, env) ==
    LET w1 == persist_notification_update(w, notification_id, update_data) IN
    IF w1.raised # NoError THEN w1
    ELSE LET notification == w1.notifications[IndexOf(w1.notifications, notification_id)]
         IN IF IsDue(notification.send_after, clock) THEN send(w1, notification, env) ELSE w1

mark_read(w, notification_id) == mark_sent_as_read(w, notification_id, NoFaults)

cancel_notification(w, notification_id) == backend_cancel_notification(w, notification_id)

-----------------------------------------------------------------------------
(* The state machine *)

IsStored(id) == IndexOf(notifications, id) # 0
Stored(id) == notifications[IndexOf(notifications, id)]

StoredIds == {notifications[i].id : i \in 1..Len(notifications)}

\* the ids a caller passes: those of the stored notifications and one not assigned yet
Ids == StoredIds \cup {next_id}

\* the Notification objects a caller can hold: the stored ones and the cancelled ones
Held == {notifications[i] : i \in 1..Len(notifications)} \cup detached

Result(op, id, due, w, pending, sent, failed) ==
    [op |-> op, id |-> id, due |-> due, raised |-> w.raised, calls |-> w.calls,
     pending |-> pending,
     notifications_sent |-> sent, notifications_failed |-> failed]

Commit(w) ==
    /\ notifications' = w.notifications
    /\ sent_emails' = w.sent_emails
    /\ ops' = ops + 1
    /\ UNCHANGED <<contexts, notification_adapters, now, tasks, lock, gather>>

\* no service call made yet
NoCall ==
    [op |-> "init", id |-> 0, due |-> FALSE, raised |-> NoError, calls |-> <<>>,
     pending |-> <<>>, notifications_sent |-> 0, notifications_failed |-> 0]

InitialStores ==
    { <<>>,
      <<[id |-> 1, notification_type |-> EMAIL, context_name |-> "test_context",
         context_kwargs |-> [test |-> "test"], send_after |-> None,
         status |-> PENDING_SEND, context_used |-> None, adapter_used |-> None],
        [id |-> 2, notification_type |-> EMAIL, context_name |-> "test_context",
         context_kwargs |-> [test |-> "not_test"], send_after |-> None,
         status |-> PENDING_SEND, context_used |-> None, adapter_used |-> None]>> }

Init ==
    /\ notifications \in InitialStores
    /\ detached = {}
    /\ contexts = [test_context |-> "create_notification_context"]
    /\ notification_adapters \in AdapterConfigs
    /\ sent_emails = [i \in 1..Len(notification_adapters) |-> <<>>]
    /\ now = 1
    /\ next_id = Len(notifications) + 1
    /\ ops = 0
    /\ last = NoCall
    /\ tasks = <<>>
    /\ lock = FALSE
    /\ gather = "idle"

CreateNotification ==
    /\ ops < MaxOps
    /\ next_id <= MaxNotifications
    /\ \E notification_type \in NotificationTypeInputs, context \in ContextInputs,
          send_after \in SendAfterInputs, env \in Envs({next_id}) :
          LET w == create_notification(World(notifications, sent_emails), next_id,
                                       notification_type, context, send_after, now, env)
          IN /\ Commit(w)
             /\ last' = Result("create_notification", next_id, IsDue(send_after, now), w,
                               <<>>, 0, 0)
    /\ next_id' = next_id + 1
    /\ UNCHANGED detached

UpdateNotification ==
    /\ ops < MaxOps
    /\ \E notification_id \in Ids, update_data \in UpdateInputs :
       \E env \in Envs({notification_id}) :
          LET w == update_notification(World(notifications, sent_emails), notification_id,
                                       update_data, now, env)
              i == IndexOf(w.notifications, notification_id)
          IN /\ Commit(w)
             /\ last' = Result("update_notification", notification_id,
                               i # 0 /\ IsDue(w.notifications[i].send_after, now), w,
                               <<>>, 0, 0)
    /\ UNCHANGED <<detached, next_id>>

Send ==
    /\ ops < MaxOps
    /\ \E notification \in Held :
       \E env \in Envs({notification.id}) :
          LET w == send(World(notifications, sent_emails), notification, env)
          IN /\ Commit(w)
             /\ last' = Result("send", notification.id, TRUE, w, <<>>, 0, 0)
    /\ UNCHANGED <<detached, next_id>>

SendPendingNotifications ==
    /\ ops < MaxOps
    /\ LET pending == get_all_pending_notifications(notifications, now) IN
       \E env \in Envs({pending[k].id : k \in 1..Len(pending)}) :
          LET r == send_pending_notifications(World(notifications, sent_emails), now, env)
          IN /\ Commit(r.w)
             /\ last' = Result("send_pending_notifications", 0, TRUE, r.w, pending,
                               r.notifications_sent, r.notifications_failed)
    /\ UNCHANGED <<detached, next_id>>

DelayedSend ==
    /\ ops < MaxOps
    /\ \E notification \in Held, context_dict \in ContextDictInputs :
       \E env \in Envs({notification.id}) :
          LET w == delayed_send(World(notifications, sent_emails), notification,
                                context_dict, env)
          IN /\ Commit(w)
             /\ last' = Result("delayed_send", notification.id, TRUE, w, <<>>, 0, 0)
    /\ UNCHANGED <<detached, next_id>>

MarkRead ==
    /\ ops < MaxOps
    /\ \E notification_id \in Ids :
          LET w == mark_read(World(notifications, sent_emails), notification_id)
          IN /\ Commit(w)
             /\ last' = Result("mark_read", notification_id, FALSE, w, <<>>, 0, 0)
    /\ UNCHANGED <<detached, next_id>>

CancelNotification ==
    /\ ops < MaxOps
    /\ \E notification_id \in Ids :
          LET w == cancel_notification(World(notifications, sent_emails), notification_id)
              i == IndexOf(notifications, notification_id)
          IN /\ Commit(w)
             /\ detached' = IF i = 0 THEN detached ELSE detached \cup {notifications[i]}
             /\ last' = Result("cancel_notification", notification_id, FALSE, w, <<>>, 0, 0)
    /\ UNCHANGED next_id

\* wall-clock time passes
Tick ==
    /\ now < MaxClock
    /\ now' = now + 1
    /\ UNCHANGED <<notifications, detached, contexts, notification_adapters, sent_emails,
                   next_id, ops, last, tasks, lock, gather>>

Next ==
    \/ CreateNotification
    \/ UpdateNotification
    \/ Send
    \/ SendPendingNotifications
    \/ DelayedSend
    \/ MarkRead
    \/ CancelNotification
    \/ Tick

Spec == Init /\ [][Next]_vars

-----------------------------------------------------------------------------
(* AsyncIONotificationService.send_pending_notifications over the             *)
(* FakeAsyncIOFileBackend: one task per pending notification, every await a   *)
(* point where the event loop may run another task                            *)

FakeAsyncIOEmailAdapter ==
    [notification_type |-> EMAIL, deferred |-> FALSE, template_renderer |-> FakeTemplateRenderer,
     adapter_import_str |->
        "vintasend.services.notification_adapters.stubs.fake_adapter.FakeAsyncIOEmailAdapter"]

AsyncAdapterConfigs ==
    { <<FakeAsyncIOEmailAdapter>>, <<FakeAsyncIOEmailAdapter, FakeAsyncIOEmailAdapter>> }

\* the stores the call starts from: MaxTasks due notifications, each with a
\* context function that returns or raises
AsyncInitialStores ==
    { [i \in 1..MaxTasks |->
          [id |-> i, notification_type |-> EMAIL, context_name |-> "test_context",
           context_kwargs |-> [test |-> kw[i]], send_after |-> None,
           status |-> PENDING_SEND, context_used |-> None, adapter_used |-> None]]
      : kw \in [1..MaxTasks -> {"test", "not_test"}] }

\* the first adapter at or after position from whose type is notification_type, 0 if none
NextMatchingAdapter(from, notification_type) ==
    IF \E i \in from..Len(notification_adapters) :
          notification_adapters[i].notification_type = notification_type
    THEN CHOOSE i \in from..Len(notification_adapters) :
            /\ notification_adapters[i].notification_type = notification_type
            /\ \A j \in from..(i - 1) :
                  notification_adapters[j].notification_type # notification_type
    ELSE 0

\* the except clauses of _send_notification_with_error_logging
Caught(e) ==
    e \in {NotificationSendError, NotificationMarkFailedError, NotificationMarkSentError}

NewTask(notification) ==
    [notification |-> notification, pc |-> "get_notification_context", context |-> None,
     adapter |-> 0, resume |-> "", reraise |-> NoError, raised |-> NoError, invocations |-> 0]

\* send returned (e = NoError) or raised e
Finish(task, e) == [task EXCEPT !.pc = "done", !.raised = e]

\* a for loop that ends after the first matching adapter
Loop_first_adapter_only(task, from) ==
    LET i == NextMatchingAdapter(from, task.notification.notification_type) IN
    IF i = 0 \/ from > 1 THEN Finish(task, NoError)
    ELSE [task EXCEPT !.pc = "adapter.send", !.adapter = i]

\* the for loop of send reaches its next matching adapter, or its end
Loop(task, from) ==
    LET i == NextMatchingAdapter(from, task.notification.notification_type) IN
    IF i = 0 THEN Finish(task, NoError)
    ELSE [task EXCEPT !.pc = "adapter.send", !.adapter = i]

\* asyncio.Lock.acquire returns only when the lock is not held
CanAcquire_whatever(locked) == TRUE

CanAcquire(locked) == ~locked

Running(t) == t \in DOMAIN tasks /\ tasks[t].pc # "done"

AsyncSendPendingNotifications ==
    /\ gather = "idle"
    /\ tasks' = [k \in 1..Len(get_all_pending_notifications(notifications, now)) |->
                    NewTask(get_all_pending_notifications(notifications, now)[k])]
    /\ lock' = FALSE
    /\ gather' = "running"
    /\ UNCHANGED <<notifications, detached, contexts, notification_adapters, sent_emails,
                   now, next_id, ops, last>>

\* context = await self.get_notification_context(notification)
TaskGetContext(t) ==
    /\ Running(t) /\ tasks[t].pc = "get_notification_context"
    /\ LET got == get_notification_context(tasks[t].notification) IN
       tasks' = [tasks EXCEPT ![t] =
                    IF got.raised # NoError
                    THEN [@ EXCEPT !.pc = "mark_pending_as_failed", !.reraise = NoError]
                    ELSE Loop([@ EXCEPT !.context = got.value], 1)]
    /\ UNCHANGED <<notifications, detached, contexts, notification_adapters, sent_emails,
                   now, next_id, ops, last, lock, gather>>

\* await adapter.send(notification=notification, context=context)
AdapterSendStep(t, raises) ==
    /\ Running(t) /\ tasks[t].pc = "adapter.send"
    /\ IF raises \/ render_raises(notification_adapters[tasks[t].adapter])
       THEN /\ tasks' = [tasks EXCEPT ![t] =
                           [@ EXCEPT !.pc = "mark_pending_as_failed",
                                     !.reraise = NotificationSendError,
                                     !.invocations = @ + 1]]
            /\ UNCHANGED sent_emails
       ELSE /\ tasks' = [tasks EXCEPT ![t] =
                           [@ EXCEPT !.pc = "mark_pending_as_sent",
                                     !.invocations = @ + 1]]
            /\ sent_emails' = [sent_emails EXCEPT ![tasks[t].adapter] =
                                 Append(@, <<tasks[t].notification.id,
                                             tasks[t].context[1]>>)]
    /\ UNCHANGED <<notifications, detached, contexts, notification_adapters,
                   now, next_id, ops, last, lock, gather>>

\* the adapter's send raises or not
TaskAdapterSend(t) == \E raises \in BOOLEAN : AdapterSendStep(t, raises)

\* a marking method that assigns nothing
AsyncMark_assigns_nothing(ns, fn, i, context, adapter_import_str) == ns

\* the assignment a marking method of FakeAsyncIOFileBackend makes to the
\* notification at position i, before it stores the notifications
AsyncMark(ns, fn, i, context, adapter_import_str) ==
    CASE fn = "mark_pending_as_sent" -> [ns EXCEPT ![i].status = SENT]
      [] fn = "mark_pending_as_failed" -> [ns EXCEPT ![i].status = FAILED]
      [] fn = "store_context_used" ->
            [ns EXCEPT ![i].context_used = context,
                       ![i].adapter_used = Some(adapter_import_str)]

\* where send continues once the marking method has returned
AfterMark(fn) ==
    CASE fn = "mark_pending_as_sent" -> "store_context_used"
      [] fn = "mark_pending_as_failed" -> "failed"
      [] fn = "store_context_used" -> "loop"

\* what send raises when the marking method raises NotificationUpdateError
MarkError(fn) ==
    IF fn = "mark_pending_as_failed" THEN NotificationMarkFailedError
    ELSE NotificationMarkSentError

\* the marking method has stored the notifications and returns: send goes on
AfterStore(task) ==
    CASE task.resume = "store_context_used" -> [task EXCEPT !.pc = "store_context_used"]
      [] task.resume = "failed" -> Finish(task, task.reraise)
      [] task.resume = "loop" -> Loop(task, task.adapter + 1)

\* await self.notification_backend.mark_pending_as_sent / mark_pending_as_failed /
\* store_context_used(notification.id, ..., lock): up to the await lock.acquire()
\* of its _store_notifications, or (returns) to the method's return
MarkStepUntil(t, patched, returns) ==
    /\ Running(t)
    /\ tasks[t].pc \in {"mark_pending_as_sent", "mark_pending_as_failed", "store_context_used"}
    /\ LET fn == tasks[t].pc
           got == get_notification(notifications, tasks[t].notification.id)
       IN IF patched
          THEN /\ tasks' = [tasks EXCEPT ![t] = Finish(@, MarkError(fn))]
               /\ UNCHANGED notifications
          ELSE IF got.raised # NoError
          THEN /\ tasks' = [tasks EXCEPT ![t] = Finish(@, got.raised)]
               /\ UNCHANGED notifications
          ELSE /\ notifications' =
                     AsyncMark(notifications, fn, got.index, tasks[t].context,
                               notification_adapters[tasks[t].adapter].adapter_import_str)
               /\ tasks' = [tasks EXCEPT ![t] =
                              IF returns
                              THEN AfterStore([@ EXCEPT !.resume = AfterMark(fn)])
                              ELSE [@ EXCEPT !.pc = "lock.acquire",
                                             !.resume = AfterMark(fn)]]
    /\ UNCHANGED <<detached, contexts, notification_adapters, sent_emails,
                   now, next_id, ops, last, lock, gather>>

\* with a lock, _store_notifications is suspended at await lock.acquire()
MarkStep(t, patched) == MarkStepUntil(t, patched, FALSE)

\* the backend method is patched to raise NotificationUpdateError or not
TaskMark(t) == \E patched \in BOOLEAN : MarkStep(t, patched)

\* _store_notifications: await lock.acquire()
TaskAcquire(t) ==
    /\ Running(t) /\ tasks[t].pc = "lock.acquire"
    /\ CanAcquire(lock)
    /\ lock' = TRUE
    /\ tasks' = [tasks EXCEPT ![t].pc = "_store_notifications"]
    /\ UNCHANGED <<notifications, detached, contexts, notification_adapters, sent_emails,
                   now, next_id, ops, last, gather>>

\* _store_notifications: the file is written, lock.release(); send goes on
TaskStore(t) ==
    /\ Running(t) /\ tasks[t].pc = "_store_notifications"
    /\ lock' = FALSE
    /\ tasks' = [tasks EXCEPT ![t] = AfterStore(@)]
    /\ UNCHANGED <<notifications, detached, contexts, notification_adapters, sent_emails,
                   now, next_id, ops, last, gather>>

\* a task whose send raised an error _send_notification_with_error_logging lets through
Escaped(t) == tasks[t].pc = "done" /\ tasks[t].raised # NoError /\ ~Caught(tasks[t].raised)

\* asyncio.gather returns once every task has finished
GatherReturns ==
    /\ gather = "running"
    /\ \A t \in DOMAIN tasks : tasks[t].pc = "done" /\ ~Escaped(t)
    /\ gather' = "returned"
    /\ UNCHANGED <<notifications, detached, contexts, notification_adapters, sent_emails,
                   now, next_id, ops, last, tasks, lock>>

\* asyncio.gather propagates the first exception of a task as soon as it is
\* raised; the other tasks are not cancelled and keep running
GatherRaises ==
    /\ gather = "running"
    /\ \E t \in DOMAIN tasks : Escaped(t)
    /\ gather' = "raised"
    /\ UNCHANGED <<notifications, detached, contexts, notification_adapters, sent_emails,
                   now, next_id, ops, last, tasks, lock>>

\* another coroutine of the application runs cancel_notification meanwhile, once
ConcurrentCancel ==
    /\ gather = "running"
    /\ detached = {}
    /\ \E i \in 1..Len(notifications) :
          /\ notifications' = SubSeq(notifications, 1, i - 1)
                              \o SubSeq(notifications, i + 1, Len(notifications))
          /\ detached' = detached \cup {notifications[i]}
    /\ UNCHANGED <<contexts, notification_adapters, sent_emails,
                   now, next_id, ops, last, tasks, lock, gather>>

InitAsync ==
    /\ notifications \in AsyncInitialStores
    /\ detached = {}
    /\ contexts = [test_context |-> "create_notification_context"]
    /\ notification_adapters \in AsyncAdapterConfigs
    /\ sent_emails = [i \in 1..Len(notification_adapters) |-> <<>>]
    /\ now = 1
    /\ next_id = Len(notifications) + 1
    /\ ops = 0
    /\ last = NoCall
    /\ tasks = <<>>
    /\ lock = FALSE
    /\ gather = "idle"

NextAsync ==
    \/ AsyncSendPendingNotifications
    \/ \E t \in 1..MaxTasks : TaskGetContext(t)
    \/ \E t \in 1..MaxTasks : TaskAdapterSend(t)
    \/ \E t \in 1..MaxTasks : TaskMark(t)
    \/ \E t \in 1..MaxTasks : TaskAcquire(t)
    \/ \E t \in 1..MaxTasks : TaskStore(t)
    \/ GatherReturns
    \/ GatherRaises
    \/ ConcurrentCancel

SpecAsync == InitAsync /\ [][NextAsync]_vars

-----------------------------------------------------------------------------
(* What the most recent service call did *)

\* the calls of the most recent service call to one function
CallsTo(fns) ==
    LET Keep(c) == c.fn \in fns IN SelectSeq(last.calls, Keep)

AdapterInvocations == CallsTo({"adapter.send", "adapter.delayed_send"})
ContextCalls == CallsTo({"get_notification_context"})
MarkingCalls == CallsTo({"mark_pending_as_sent", "mark_pending_as_failed", "store_context_used"})

Rejected(calls) == {k \in 1..Len(calls) : calls[k].result # NoError}

\* the configured adapters whose notification_type is that of the notification
Matching(notification_type) ==
    {i \in 1..Len(notification_adapters) :
        notification_adapters[i].notification_type = notification_type}

CreatedDue == last.op = "create_notification" /\ last.due
CreatedFuture == last.op = "create_notification" /\ ~last.due

-----------------------------------------------------------------------------
(* Claims *)

\* C1 (as stated): a notification created with send_after null or <= now ends
\* create_notification with exactly one adapter invocation and status SENT or
\* FAILED, for every configured adapter set.
C1_AsStated ==
    CreatedDue =>
        /\ Len(AdapterInvocations) = 1
        /\ IsStored(last.id) /\ Stored(last.id).status \in {SENT, FAILED}

\* C1 (amended): a notification created with send_after null or <= now is handed
\* to send exactly once; when its context is generated, exactly one configured
\* adapter matches its type, that adapter is not deferred and the backend accepts
\* the status marking, there is exactly one adapter invocation and the stored
\* status is SENT or FAILED when create_notification returns or raises.
C1_DueCreationSendsOnce ==
    CreatedDue =>
        /\ Len(ContextCalls) = 1
        /\ ( /\ Rejected(ContextCalls) = {}
             /\ Rejected(MarkingCalls) = {}
             /\ \E i \in Matching(Stored(last.id).notification_type) :
                   /\ Matching(Stored(last.id).notification_type) = {i}
                   /\ ~notification_adapters[i].deferred )
           => /\ Len(AdapterInvocations) = 1
              /\ Stored(last.id).status \in {SENT, FAILED}

\* a due creation whose only matching adapter raised: one invocation, FAILED, send-error
C1_Witness ==
    /\ CreatedDue
    /\ Rejected(ContextCalls) = {} /\ Rejected(MarkingCalls) = {}
    /\ Cardinality(Matching(Stored(last.id).notification_type)) = 1
    /\ Len(AdapterInvocations) = 1
    /\ Stored(last.id).status = FAILED
    /\ last.raised = NotificationSendError

\* C2: a notification created with send_after > now keeps the stored status
\* PENDING_SEND, and create_notification makes no adapter invocation and no
\* context-generation call.
C2_FutureCreationSendsNothing ==
    CreatedFuture =>
        /\ IsStored(last.id) /\ Stored(last.id).status = PENDING_SEND
        /\ Len(AdapterInvocations) = 0
        /\ Len(ContextCalls) = 0

\* a creation for a later time, with a matching adapter configured
C2_Witness ==
    /\ CreatedFuture
    /\ Stored(last.id).send_after # None /\ Stored(last.id).send_after[1] > now
    /\ Matching(Stored(last.id).notification_type) # {}
    /\ Stored(last.id).status = PENDING_SEND
    /\ last.raised = NoError

\* the service calls that run send at most once, on the notification last.id
SingleSend == last.op \in {"send", "create_notification", "update_notification"}

\* the positions in the calls of the most recent service call that satisfy Test
Positions(Test(_)) == {k \in 1..Len(last.calls) : Test(last.calls[k])}

Delivery(c) ==
    /\ c.fn = "adapter.send" /\ c.result = NoError
    /\ ~notification_adapters[c.adapter].deferred
FailedSend(c) == c.fn = "adapter.send" /\ c.result # NoError
FailedContext(c) == c.fn = "get_notification_context" /\ c.result # NoError

\* C3: when send returns without raising after a matching non-deferred adapter
\* delivered, the stored record is SENT, its context_used is the context the
\* registered function returned, its adapter_used is the import string of the
\* delivering adapter, and that adapter was invoked exactly once, with that context.
C3_DeliveredIsRecorded ==
    (SingleSend /\ last.raised = NoError /\ Positions(Delivery) # {}) =>
        /\ IsStored(last.id)
        /\ Stored(last.id).status = SENT
        /\ Len(ContextCalls) = 1
        /\ Stored(last.id).context_used = ContextCalls[1].context
        /\ \E k \in Positions(Delivery) :
              /\ Stored(last.id).adapter_used =
                    Some(notification_adapters[last.calls[k].adapter].adapter_import_str)
              /\ last.calls[k].context = ContextCalls[1].context
              /\ \A j \in Positions(Delivery) :
                    last.calls[j].adapter = last.calls[k].adapter => j = k

\* send on a held notification delivered through FakeEmailAdapter and returned
C3_Witness ==
    /\ last.op = "send" /\ last.raised = NoError
    /\ Positions(Delivery) # {}
    /\ Stored(last.id).status = SENT
    /\ Stored(last.id).context_used = Some([test |-> "test"])
    /\ Stored(last.id).adapter_used = Some(FakeEmailAdapter.adapter_import_str)

\* C4 (as stated): a context-generation failure (name not registered, or the
\* function raising) always results in status FAILED and zero adapter invocations.
C4_AsStated ==
    (SingleSend /\ Positions(FailedContext) # {}) =>
        /\ IsStored(last.id) /\ Stored(last.id).status = FAILED
        /\ Len(AdapterInvocations) = 0

\* C4 (amended): a context-generation failure results in zero adapter invocations
\* and exactly one mark_failed attempt; the status is FAILED and send returns
\* without raising when the backend accepts that attempt.
C4_ContextFailureMarksFailed ==
    (SingleSend /\ Positions(FailedContext) # {}) =>
        /\ Len(AdapterInvocations) = 0
        /\ Len(CallsTo({"mark_pending_as_failed"})) = 1
        /\ Len(MarkingCalls) = 1
        /\ Rejected(MarkingCalls) = {} =>
              /\ IsStored(last.id) /\ Stored(last.id).status = FAILED
              /\ last.raised = NoError

\* a send whose context function raised, marked FAILED
C4_Witness ==
    /\ SingleSend /\ Positions(FailedContext) # {}
    /\ Rejected(MarkingCalls) = {}
    /\ Stored(last.id).status = FAILED
    /\ last.raised = NoError

\* C5: when a matched adapter's send raises and the mark_failed that follows
\* succeeds, send raises a send-error and the stored status is FAILED; neither
\* mark_sent nor store_context_used is called after the failed adapter call.
C5_SendFailureMarksFailed ==
    SingleSend =>
        \A k \in Positions(FailedSend) :
            /\ k < Len(last.calls)
            /\ last.calls[k + 1].fn = "mark_pending_as_failed"
            /\ last.calls[k + 1].id = last.id
            /\ last.calls[k + 1].result = NoError =>
                  /\ last.raised = NotificationSendError
                  /\ IsStored(last.id) /\ Stored(last.id).status = FAILED
                  /\ Len(last.calls) = k + 1

\* a send whose adapter raised and whose mark_failed succeeded
C5_Witness ==
    /\ last.op = "send"
    /\ Positions(FailedSend) # {}
    /\ Rejected(MarkingCalls) = {}
    /\ last.raised = NotificationSendError
    /\ Stored(last.id).status = FAILED

\* C6 (as stated): a failed adapter send is always followed by a mark_failed
\* attempt, and however the backend rejects that attempt the error send raises
\* is the mark-failed error: never the send error, and no other error type.
C6_AsStated ==
    SingleSend =>
        \A k \in Positions(FailedSend) :
            /\ k < Len(last.calls)
            /\ last.calls[k + 1].fn = "mark_pending_as_failed"
            /\ last.calls[k + 1].result # NoError =>
                  last.raised = NotificationMarkFailedError

\* C7 (as stated): when the adapter delivered and mark_sent or store_context_used
\* then fails, in whatever way (an id the backend does not know included), send
\* raises the mark-sent error, attempts no mark_failed, does not invoke the
\* adapter again and does not set the status to FAILED.
C7_AsStated ==
    SingleSend =>
        \A k \in Positions(Delivery) :
            \A j \in (k + 1)..Len(last.calls) :
                ( /\ last.calls[j].fn \in {"mark_pending_as_sent", "store_context_used"}
                  /\ last.calls[j].result # NoError
                  /\ \A i \in (k + 1)..(j - 1) : last.calls[i].fn = "mark_pending_as_sent" )
                => /\ last.raised = NotificationMarkSentError
                   /\ j = Len(last.calls)
                   /\ Len(CallsTo({"mark_pending_as_failed"})) = 0

\* the status changes the lifecycle allows
AllowedTransitions ==
    {<<PENDING_SEND, SENT>>, <<PENDING_SEND, FAILED>>, <<SENT, READ>>}

\* C8 (as stated): over every sequence of service calls a stored status only
\* changes along PENDING_SEND->SENT, PENDING_SEND->FAILED, SENT->READ, or the
\* removal of a PENDING_SEND notification; FAILED and READ are never left.
C8_AsStated ==
    [][\A i \in 1..Len(notifications) :
          LET old == notifications[i]
              j == IndexOf(notifications', old.id)
          IN IF j = 0 THEN old.status = PENDING_SEND
             ELSE \/ notifications'[j].status = old.status
                  \/ <<old.status, notifications'[j].status>> \in AllowedTransitions]_vars

SentPending == last.op = "send_pending_notifications"

\* the calls of the most recent service call about one notification
CallsAbout(id, fns) ==
    LET Keep(c) == c.id = id /\ c.fn \in fns IN SelectSeq(last.calls, Keep)

NotDelivered ==
    {k \in 1..Len(last.pending) :
        \A j \in Positions(Delivery) : last.calls[j].id # last.pending[k].id}

\* C10 (as stated): over N pending notifications of which K were not delivered
\* (context generation failed, the adapter raised, or no delivery took place),
\* send_pending_notifications reports sent = N - K and failed = K.
C10_AsStated ==
    SentPending =>
        /\ last.notifications_failed = Cardinality(NotDelivered)
        /\ last.notifications_sent = Len(last.pending) - Cardinality(NotDelivered)

\* the time-gated service calls: they send only what is due
Gated == last.op \in {"create_notification", "update_notification",
                      "send_pending_notifications"}

\* the notification of one pending entry went through send without any failure
\* and through exactly one matching adapter, which is not deferred
SentCleanly(n) ==
    /\ \A k \in 1..Len(last.calls) :
          last.calls[k].id = n.id => last.calls[k].result = NoError
    /\ \E i \in Matching(n.notification_type) :
          Matching(n.notification_type) = {i} /\ ~notification_adapters[i].deferred

DeliveriesOf(id) == {k \in Positions(Delivery) : last.calls[k].id = id}

-----------------------------------------------------------------------------
(* Claims about the cooperative send_pending_notifications *)

AllTasksDone == \A t \in DOMAIN tasks : tasks[t].pc = "done"

\* the tasks inside the file write of _store_notifications
Storing == {t \in DOMAIN tasks : tasks[t].pc = "_store_notifications"}

\* context generation and the adapter send of task t succeeded
Delivered(t) ==
    /\ tasks[t].context # None
    /\ tasks[t].invocations >= 1
    /\ tasks[t].reraise = NoError

\* C12 (as stated): whenever the cooperative send_pending_notifications has
\* finished, by returning or by raising, every task it launched has finished.
C12_AsStated ==
    gather \in {"returned", "raised"} => AllTasksDone

C14_OneWriterAtATime ==
    /\ Cardinality(Storing) <= 1
    /\ Storing # {} => lock

\* one task inside the file write while another waits for the lock
C14_Witness ==
    \E t, u \in DOMAIN tasks :
        /\ tasks[t].pc = "_store_notifications"
        /\ tasks[u].pc = "lock.acquire"
        /\ lock

-----------------------------------------------------------------------------
(* Claims about create_notification and update_notification *)

SendErrors ==
    {NotificationSendError, NotificationMarkFailedError, NotificationMarkSentError}

\* C15: whenever create_notification raises because its immediate send failed
\* (send error, mark-failed error or mark-sent error), the backend already holds
\* the new record and get_notification returns it.
C15_PersistedBeforeSend ==
    (last.op = "create_notification" /\ last.raised # NoError) =>
        /\ last.raised \in SendErrors
        /\ last.calls[1].fn = "persist_notification"
        /\ last.calls[1].id = last.id
        /\ get_notification(notifications, last.id).raised = NoError
        /\ Stored(last.id).id = last.id

\* a creation that raised the mark-sent error: the record is there, still PENDING_SEND
C15_Witness ==
    /\ last.op = "create_notification"
    /\ last.raised = NotificationMarkSentError
    /\ get_notification(notifications, last.id).raised = NoError
    /\ Stored(last.id).status = PENDING_SEND

\* the step is an update_notification call on the stored notification id
UpdateOf(id) ==
    /\ id \in StoredIds
    /\ ops' = ops + 1
    /\ last'.op = "update_notification" /\ last'.id = id

\* the update moved the send_after of a PENDING_SEND notification from the future
\* to the past or to null
MovedToDue(id) ==
    /\ UpdateOf(id)
    /\ Stored(id).status = PENDING_SEND
    /\ ~IsDue(Stored(id).send_after, now)
    /\ IsDue(Stored(id)'.send_after, now)

\* exactly one configured adapter matches the type, and it delivers on send
OneDirectAdapter(notification_type) ==
    \E i \in Matching(notification_type) :
        /\ Matching(notification_type) = {i}
        /\ ~notification_adapters[i].deferred

C17_FutureUpdateSendsNothing ==
    [][\A id \in Ids :
          (UpdateOf(id) /\ ~IsDue(Stored(id)'.send_after, now)) =>
              /\ last'.raised = NoError
              /\ Len(AdapterInvocations)' = 0
              /\ Len(ContextCalls)' = 0
              /\ sent_emails' = sent_emails
              /\ Stored(id)'.status = Stored(id).status]_vars

\* an update that left a notification with a future send_after: nothing was sent
C17_Witness ==
    /\ last.op = "update_notification" /\ ~last.due /\ last.raised = NoError
    /\ now = 1
    /\ Stored(last.id).send_after = Some(2)
    /\ Stored(last.id).status = PENDING_SEND
    /\ Len(AdapterInvocations) = 0

\* C18 (as stated): update_notification on a notification whose status is SENT
\* raises an update error, changes none of its fields and invokes no adapter.
C18_AsStated ==
    [][\A id \in Ids :
          (UpdateOf(id) /\ Stored(id).status = SENT) =>
              /\ IsNotificationUpdateError(last'.raised)
              /\ Stored(id)' = Stored(id)
              /\ Len(AdapterInvocations)' = 0]_vars

-----------------------------------------------------------------------------
(* Claims about the adapters send selects *)

\* C19 (as stated): one send call invokes at most one adapter and makes at most
\* one mark_pending_as_sent or mark_pending_as_failed call, for every adapter list.
C19_AsStated ==
    SingleSend =>
        /\ Len(AdapterInvocations) <= 1
        /\ Len(CallsTo({"mark_pending_as_sent", "mark_pending_as_failed"})) <= 1

\* the step is a send call on the held notification
SendOf(notification) ==
    /\ notification \in Held
    /\ ops' = ops + 1
    /\ last'.op = "send" /\ last'.id = notification.id

\* C20: when the context of a notification is generated and no configured adapter
\* matches its type, send returns without raising, invokes no adapter, delivers
\* nothing and leaves the stored notifications as they were.
C20_NoMatchingAdapterIsSilent ==
    [][\A notification \in Held :
          ( /\ SendOf(notification)
            /\ get_notification_context(notification).raised = NoError
            /\ Matching(notification.notification_type) = {} ) =>
              /\ last'.raised = NoError
              /\ Len(AdapterInvocations)' = 0
              /\ Len(MarkingCalls)' = 0
              /\ sent_emails' = sent_emails
              /\ notifications' = notifications]_vars

\* a send that generated the context and found no adapter of the type
C20_Witness ==
    /\ last.op = "send" /\ last.raised = NoError
    /\ IsStored(last.id)
    /\ Matching(Stored(last.id).notification_type) = {}
    /\ Len(ContextCalls) = 1 /\ Rejected(ContextCalls) = {}
    /\ Len(AdapterInvocations) = 0
    /\ Stored(last.id).status = PENDING_SEND

-----------------------------------------------------------------------------
(* Claims about deferred-capable adapters and delayed_send *)

DeferredDispatch(c) ==
    /\ c.fn = "adapter.send" /\ c.result = NoError
    /\ notification_adapters[c.adapter].deferred

\* C21: when the blocking send has dispatched to a deferred-capable adapter
\* without an exception, it returns at once: the dispatch is its last call, it
\* makes no mark_pending_as_sent, mark_pending_as_failed or store_context_used
\* call and raises nothing, so a notification just created is still PENDING_SEND
\* with no context_used and no adapter_used.
C21_DeferredDispatchMarksNothing ==
    (SingleSend /\ Positions(DeferredDispatch) # {}) =>
        /\ last.raised = NoError
        /\ Positions(DeferredDispatch) = {Len(last.calls)}
        /\ Len(MarkingCalls) = 0
        /\ Len(AdapterInvocations) = 1
        /\ last.op = "create_notification" =>
              /\ Stored(last.id).status = PENDING_SEND
              /\ Stored(last.id).context_used = None
              /\ Stored(last.id).adapter_used = None

\* a creation whose send dispatched to the deferred-capable adapter
C21_Witness ==
    /\ last.op = "create_notification" /\ last.due
    /\ Positions(DeferredDispatch) # {}
    /\ Stored(last.id).status = PENDING_SEND
    /\ Stored(last.id).context_used = None

\* the step is a delayed_send call with the held notification as its record
DelayedSendOf(notification) ==
    /\ notification \in Held
    /\ ops' = ops + 1
    /\ last'.op = "delayed_send" /\ last'.id = notification.id

\* every notification but the one of this id is stored as before
OthersUnchanged(id) ==
    \A j \in 1..Len(notifications) :
        notifications[j].id # id =>
            /\ j <= Len(notifications')
            /\ notifications'[j] = notifications[j]

\* C22: delayed_send on a record whose type matches a deferred-capable adapter
\* invokes the delayed_send of that adapter exactly once, with the record and the
\* given context, and leaves the number of stored notifications unchanged; when
\* it returns without raising, the notification of the record's id is stored as
\* SENT with that context as context_used and the import string of that adapter
\* as adapter_used, and no other notification has changed.
C22_DelayedSendDelivers ==
    [][\A notification \in Held :
          LET i == NextMatchingAdapter(1, notification.notification_type) IN
          (DelayedSendOf(notification) /\ i # 0 /\ notification_adapters[i].deferred) =>
              /\ ( /\ Len(AdapterInvocations) = 1
                   /\ AdapterInvocations[1].fn = "adapter.delayed_send"
                   /\ AdapterInvocations[1].adapter = i
                   /\ AdapterInvocations[1].id = notification.id )'
              /\ Len(notifications') = Len(notifications)
              /\ OthersUnchanged(notification.id)
              /\ last'.raised = NoError =>
                    ( /\ IsStored(notification.id)
                      /\ Stored(notification.id).status = SENT
                      /\ Stored(notification.id).context_used = AdapterInvocations[1].context
                      /\ Stored(notification.id).adapter_used =
                            Some(notification_adapters[i].adapter_import_str)
                      /\ Len(CallsTo({"mark_pending_as_sent"})) = 1 )']_vars

\* a delayed_send that delivered through the deferred-capable adapter
C22_Witness ==
    /\ last.op = "delayed_send" /\ last.raised = NoError
    /\ Len(AdapterInvocations) = 1
    /\ AdapterInvocations[1].fn = "adapter.delayed_send"
    /\ AdapterInvocations[1].result = NoError
    /\ Stored(last.id).status = SENT
    /\ Stored(last.id).context_used = AdapterInvocations[1].context

\* C23: delayed_send on a record whose first matching adapter is not
\* deferred-capable, or that no adapter matches, does nothing: it makes no adapter
\* and no backend call, raises nothing, and the stored notifications and the
\* delivered messages are as before.
C23_DelayedSendWithoutDeferredAdapter ==
    [][\A notification \in Held :
          LET i == NextMatchingAdapter(1, notification.notification_type) IN
          (DelayedSendOf(notification) /\ (i = 0 \/ ~notification_adapters[i].deferred)) =>
              /\ last'.raised = NoError
              /\ last'.calls = <<>>
              /\ notifications' = notifications
              /\ sent_emails' = sent_emails]_vars

\* a delayed_send under a configuration whose matching adapter is not
\* deferred-capable: no call was made
C23_Witness ==
    /\ last.op = "delayed_send" /\ last.raised = NoError
    /\ last.calls = <<>>
    /\ IsStored(last.id)
    /\ \E i \in Matching(Stored(last.id).notification_type) :
          ~notification_adapters[i].deferred

FailedDelayedSend(c) == c.fn = "adapter.delayed_send" /\ c.result # NoError
DelayedDelivery(c) == c.fn = "adapter.delayed_send" /\ c.result = NoError

\* C24 (as stated): when the adapter's delayed_send raises, mark_pending_as_failed
\* is attempted and mark_pending_as_sent is not; delayed_send then raises the send
\* error with the notification left FAILED, or the mark-failed error if the marking
\* failed. When the marking that follows a delivery fails, delayed_send raises the
\* mark-sent error.
C24_AsStated ==
    last.op = "delayed_send" =>
        /\ \A k \in Positions(FailedDelayedSend) :
              /\ k < Len(last.calls)
              /\ last.calls[k + 1].fn = "mark_pending_as_failed"
              /\ last.calls[k + 1].id = last.id
              /\ Len(CallsTo({"mark_pending_as_sent"})) = 0
              /\ IF last.calls[k + 1].result = NoError
                 THEN /\ last.raised = NotificationSendError
                      /\ IsStored(last.id) /\ Stored(last.id).status = FAILED
                 ELSE last.raised = NotificationMarkFailedError
        /\ \A k \in Positions(DelayedDelivery) :
              Rejected(MarkingCalls) # {} => last.raised = NotificationMarkSentError

-----------------------------------------------------------------------------
(* Claims about cancel_notification and mark_read *)

\* the step is a cancel_notification call on the stored notification id
CancelOf(id) ==
    /\ id \in StoredIds
    /\ ops' = ops + 1
    /\ last'.op = "cancel_notification" /\ last'.id = id

\* every stored notification but the one of this id is still stored, as it was
OthersKept(id) ==
    \A j \in 1..Len(notifications) :
        notifications[j].id # id =>
            \E k \in 1..Len(notifications') : notifications'[k] = notifications[j]

\* the notification of this id is not among the records of the sequence
NotIn(id, records) == \A k \in 1..Len(records) : records[k].id # id

\* C26: cancel_notification of a PENDING_SEND notification removes that
\* notification and no other, and delivers nothing; from then on, after every
\* later call, get_notification of its id raises not-found, it is in neither the
\* pending nor the future notifications, and a send_pending_notifications run
\* makes no call about it.
C26_CancelledIsGone ==
    [][/\ \A id \in Ids :
             (CancelOf(id) /\ Stored(id).status = PENDING_SEND) =>
                 /\ last'.raised = NoError
                 /\ id \notin StoredIds'
                 /\ Len(notifications') = Len(notifications) - 1
                 /\ OthersKept(id)
                 /\ sent_emails' = sent_emails
                 /\ Len(AdapterInvocations)' = 0
       /\ \A n \in detached' :
             /\ get_notification(notifications', n.id).raised = NotificationNotFoundError
             /\ NotIn(n.id, get_all_pending_notifications(notifications', now'))
             /\ NotIn(n.id, get_all_future_notifications(notifications', now'))
             /\ last'.op = "send_pending_notifications" =>
                   /\ NotIn(n.id, last'.pending)
                   /\ NotIn(n.id, last'.calls)]_vars

\* a send_pending_notifications run after a cancellation: it sent the notification
\* that was left and made no call about the cancelled one
C26_Witness ==
    /\ last.op = "send_pending_notifications"
    /\ detached # {}
    /\ \A n \in detached : n.status = PENDING_SEND /\ ~IsStored(n.id)
    /\ Len(AdapterInvocations) > 0

\* the step is a mark_read call on the stored notification id
MarkReadOf(id) ==
    /\ id \in StoredIds
    /\ ops' = ops + 1
    /\ last'.op = "mark_read" /\ last'.id = id

\* C27: mark_read of a notification whose status is SENT raises nothing and
\* changes the stored status of that notification to READ, which is what
\* get_notification then returns; no other field, no other notification and no
\* delivered message changes, and no adapter is invoked.
C27_MarkReadOfSent ==
    [][\A id \in Ids :
          (MarkReadOf(id) /\ Stored(id).status = SENT) =>
              /\ last'.raised = NoError
              /\ notifications' =
                    [notifications EXCEPT ![IndexOf(notifications, id)].status = READ]
              /\ get_notification(notifications', id).raised = NoError
              /\ notifications'[get_notification(notifications', id).index].status = READ
              /\ sent_emails' = sent_emails
              /\ Len(AdapterInvocations)' = 0]_vars

\* a mark_read that found a delivered notification: it is READ, with the context
\* and the adapter of its delivery still recorded
C27_Witness ==
    /\ last.op = "mark_read" /\ last.raised = NoError
    /\ IsStored(last.id)
    /\ Stored(last.id).status = READ
    /\ Stored(last.id).context_used # None
    /\ Stored(last.id).adapter_used # None

-----------------------------------------------------------------------------
(* The paginated queries *)

MaxStored == 2
MaxPage == 3
MaxPageSize == 2

NotificationError == "NotificationError"

\* a user id is an int or a str: its type and str(user_id)
IntId(digits) == <<"int", digits>>
StrId(digits) == <<"str", digits>>
str(user_id) == user_id[2]

UserIdInputs == {IntId("1"), StrId("1"), IntId("2")}

Min(a, b) == IF a <= b THEN a ELSE b

\* records[start:stop] for 0 <= start <= stop
Slice(records, start, stop) ==
    SubSeq(records, Min(start, Len(records)) + 1, Min(stop, Len(records)))

\* pagination that numbers the pages from 0
paginate_notifications_from_page_zero(records, page, page_size) ==
    Slice(records, page * page_size, (page * page_size) + page_size)

paginate_notifications(records, page, page_size) ==
    Slice(records, (page - 1) * page_size, ((page - 1) * page_size) + page_size)

get_pending_notifications(ns, clock, page, page_size) ==
    Slice(get_all_pending_notifications(ns, clock),
          (page - 1) * page_size, ((page - 1) * page_size) + page_size)

get_future_notifications(ns, clock, page, page_size) ==
    paginate_notifications(get_all_future_notifications(ns, clock), page, page_size)

get_all_future_notifications_from_user(ns, clock, user_id) ==
    LET Keep(n) == /\ n.status = PENDING_SEND
                   /\ (n.send_after # None /\ n.send_after[1] > clock)
                   /\ str(n.user_id) = str(user_id)
    IN SelectSeq(ns, Keep)

get_future_notifications_from_user(ns, clock, user_id, page, page_size) ==
    paginate_notifications(get_all_future_notifications_from_user(ns, clock, user_id),
                           page, page_size)

filter_all_in_app_unread_notifications(ns, user_id) ==
    LET Keep(n) == /\ n.user_id = user_id
                   /\ n.status = SENT
                   /\ n.notification_type = IN_APP
    IN SelectSeq(ns, Keep)

filter_in_app_unread_notifications(ns, user_id, page, page_size) ==
    paginate_notifications(filter_all_in_app_unread_notifications(ns, user_id),
                           page, page_size)

Returned(calls, value) == [raised |-> NoError, calls |-> calls, value |-> value]

\* get_in_app_unread without its test of the configured adapters
get_in_app_unread_unchecked(ns, user_id, page, page_size) ==
    Returned(<<Call("filter_in_app_unread_notifications", 0, 0, None, NoError)>>,
             filter_in_app_unread_notifications(ns, user_id, page, page_size))

get_in_app_unread(ns, user_id, page, page_size) ==
    IF ~\E i \in 1..Len(notification_adapters) :
           notification_adapters[i].notification_type = IN_APP
    THEN [raised |-> NotificationError, calls |-> <<>>, value |-> <<>>]
    ELSE Returned(<<Call("filter_in_app_unread_notifications", 0, 0, None, NoError)>>,
                  filter_in_app_unread_notifications(ns, user_id, page, page_size))

\* what a backend file can hold for one notification after some service calls:
\* who it is for, its type, its status and its send_after
StoredKinds ==
    { [user_id |-> IntId("1"), notification_type |-> EMAIL, status |-> PENDING_SEND,
       send_after |-> None],
      [user_id |-> IntId("1"), notification_type |-> EMAIL, status |-> PENDING_SEND,
       send_after |-> Some(2)],
      [user_id |-> IntId("1"), notification_type |-> IN_APP, status |-> SENT,
       send_after |-> None],
      [user_id |-> StrId("1"), notification_type |-> IN_APP, status |-> SENT,
       send_after |-> None],
      [user_id |-> IntId("2"), notification_type |-> EMAIL, status |-> PENDING_SEND,
       send_after |-> Some(2)],
      [user_id |-> IntId("1"), notification_type |-> EMAIL, status |-> SENT,
       send_after |-> None] }

StoredNotification(id, kind) ==
    [id |-> id, user_id |-> kind.user_id, notification_type |-> kind.notification_type,
     context_name |-> "test_context", context_kwargs |-> [test |-> "test"],
     send_after |-> kind.send_after, status |-> kind.status,
     context_used |-> IF kind.status = SENT THEN Some([test |-> "test"]) ELSE None,
     adapter_used |-> IF kind.status # SENT THEN None
                      ELSE IF kind.notification_type = IN_APP
                      THEN Some(FakeInAppAdapter.adapter_import_str)
                      ELSE Some(FakeEmailAdapter.adapter_import_str)]

QueryStores ==
    UNION { { [i \in 1..len |-> StoredNotification(i, kinds[i])]
              : kinds \in [1..len -> StoredKinds] }
            : len \in 0..MaxStored }

QueryAdapterConfigs == { <<FakeEmailAdapter>>, <<FakeInAppAdapter>> }

Pages == 1..MaxPage
PageSizes == 1..MaxPageSize

\* the record of a query: its arguments, the time of the call and what it gave
Query(op, user_id, page, page_size, outcome) ==
    [op |-> op, user_id |-> user_id, page |-> page, page_size |-> page_size,
     clock |-> now, raised |-> outcome.raised, calls |-> outcome.calls,
     result |-> outcome.value]

\* the queries change nothing, so one query from every store and time covers
\* every sequence of queries
QueryFrame ==
    /\ last = NoCall
    /\ UNCHANGED <<notifications, detached, contexts, notification_adapters, sent_emails,
                   now, next_id, ops, tasks, lock, gather>>

GetPendingNotifications ==
    /\ \E page \in Pages, page_size \in PageSizes :
          last' = Query("get_pending_notifications", None, page, page_size,
                        Returned(<<Call("get_pending_notifications", 0, 0, None, NoError)>>,
                                 get_pending_notifications(notifications, now,
                                                           page, page_size)))
    /\ QueryFrame

GetFutureNotifications ==
    /\ \E page \in Pages, page_size \in PageSizes :
          last' = Query("get_future_notifications", None, page, page_size,
                        Returned(<<Call("get_future_notifications", 0, 0, None, NoError)>>,
                                 get_future_notifications(notifications, now,
                                                          page, page_size)))
    /\ QueryFrame

GetFutureNotificationsFromUser ==
    /\ \E user_id \in UserIdInputs, page \in Pages, page_size \in PageSizes :
          last' = Query("get_future_notifications_from_user", Some(user_id), page, page_size,
                        Returned(<<Call("get_future_notifications_from_user", 0, 0, None,
                                        NoError)>>,
                                 get_future_notifications_from_user(notifications, now, user_id,
                                                                    page, page_size)))
    /\ QueryFrame

GetInAppUnread ==
    /\ \E user_id \in UserIdInputs, page \in Pages, page_size \in PageSizes :
          last' = Query("get_in_app_unread", Some(user_id), page, page_size,
                        get_in_app_unread(notifications, user_id, page, page_size))
    /\ QueryFrame

InitQueries ==
    /\ notifications \in QueryStores
    /\ detached = {}
    /\ contexts = [test_context |-> "create_notification_context"]
    /\ notification_adapters \in QueryAdapterConfigs
    /\ sent_emails = [i \in 1..Len(notification_adapters) |-> <<>>]
    /\ now = 1
    /\ next_id = Len(notifications) + 1
    /\ ops = 0
    /\ last = NoCall
    /\ tasks = <<>>
    /\ lock = FALSE
    /\ gather = "idle"

NextQueries ==
    \/ GetPendingNotifications
    \/ GetFutureNotifications
    \/ GetFutureNotificationsFromUser
    \/ GetInAppUnread
    \/ Tick

SpecQueries == InitQueries /\ [][NextQueries]_vars

-----------------------------------------------------------------------------
(* Claims about the queries *)

InAppConfigured ==
    \E i \in 1..Len(notification_adapters) : notification_adapters[i].notification_type = IN_APP

\* the notifications of the user that are IN_APP and SENT, in backend order
InAppUnreadOf(user_id) ==
    LET Keep(n) == n.user_id = user_id /\ n.notification_type = IN_APP /\ n.status = SENT
    IN SelectSeq(notifications, Keep)

\* result is the page of the records, pages numbered from 1
IsPage(result, records, page, page_size) ==
    LET first == (page - 1) * page_size
        rest == IF Len(records) > first THEN Len(records) - first ELSE 0
    IN /\ Len(result) = Min(page_size, rest)
       /\ \A k \in 1..Len(result) : result[k] = records[first + k]

\* C28: get_in_app_unread raises NotificationError and makes no backend call when
\* no configured adapter has the IN_APP type; with such an adapter it raises
\* nothing and returns the requested page of the stored notifications of that
\* user id whose type is IN_APP and whose status is SENT. Nothing stored changes.
C28_InAppUnreadNeedsAnInAppAdapter ==
    last.op = "get_in_app_unread" =>
        IF InAppConfigured
        THEN /\ last.raised = NoError
             /\ IsPage(last.result, InAppUnreadOf(last.user_id[1]), last.page, last.page_size)
        ELSE /\ last.raised = NotificationError
             /\ last.calls = <<>>
             /\ last.result = <<>>

\* without an IN_APP adapter the call raised although the user has an unread
\* in-app notification stored
C28_Witness ==
    /\ last.op = "get_in_app_unread"
    /\ ~InAppConfigured
    /\ last.raised = NotificationError
    /\ InAppUnreadOf(last.user_id[1]) # <<>>

\* the filtered set a paginated query pages through, at the time of the call
Filtered ==
    CASE last.op = "get_pending_notifications" ->
            get_all_pending_notifications(notifications, last.clock)
      [] last.op = "get_future_notifications" ->
            get_all_future_notifications(notifications, last.clock)
      [] last.op = "get_future_notifications_from_user" ->
            get_all_future_notifications_from_user(notifications, last.clock, last.user_id[1])
      [] last.op = "get_in_app_unread" ->
            filter_all_in_app_unread_notifications(notifications, last.user_id[1])

\* the page the query of the most recent call gives for another page number
PageOfQuery(page) ==
    CASE last.op = "get_pending_notifications" ->
            get_pending_notifications(notifications, last.clock, page, last.page_size)
      [] last.op = "get_future_notifications" ->
            get_future_notifications(notifications, last.clock, page, last.page_size)
      [] last.op = "get_future_notifications_from_user" ->
            get_future_notifications_from_user(notifications, last.clock, last.user_id[1],
                                               page, last.page_size)
      [] last.op = "get_in_app_unread" ->
            get_in_app_unread(notifications, last.user_id[1], page, last.page_size).value

RECURSIVE PagesUpTo(_)
PagesUpTo(page) == IF page = 0 THEN <<>> ELSE PagesUpTo(page - 1) \o PageOfQuery(page)

PaginatedQuery ==
    /\ last.op \in {"get_pending_notifications", "get_future_notifications",
                    "get_future_notifications_from_user", "get_in_app_unread"}
    /\ last.raised = NoError

\* C29: a paginated query with page p >= 1 and page_size n >= 1 returns exactly
\* the records at positions [(p-1)*n, p*n) of its filtered set in backend order, an
\* empty sequence when the page is beyond the end, and raises nothing; the pages
\* 1, 2, ... of that query put one after the other are the filtered set.
C29_PagesPartitionTheFilteredSet ==
    PaginatedQuery =>
        /\ IsPage(last.result, Filtered, last.page, last.page_size)
        /\ (last.page - 1) * last.page_size >= Len(Filtered) => last.result = <<>>
        /\ PagesUpTo(Len(Filtered) + 1) = Filtered

\* the second page of size 1 of a filtered set of two
C29_Witness ==
    /\ PaginatedQuery
    /\ last.page = 2 /\ last.page_size = 1
    /\ Len(Filtered) = 2
    /\ last.result = <<Filtered[2]>>

-----------------------------------------------------------------------------
(* Claims about ids the backend does not hold *)

\* the ids of the notifications that were cancelled
CancelledIds == {n.id : n \in detached}

\* C30: for an id the backend does not hold (never given out, or cancelled),
\* get_notification raises the not-found error, and an update_notification call
\* with such an id raises it too, leaves the stored notifications and the
\* delivered messages as they were, generates no context and invokes no adapter.
C30_UnknownIdIsNotFound ==
    [][\A id \in Ids \cup CancelledIds :
          ~IsStored(id) =>
              /\ get_notification(notifications, id).raised = NotificationNotFoundError
              /\ (ops' = ops + 1 /\ last'.op = "update_notification" /\ last'.id = id) =>
                    /\ last'.raised = NotificationNotFoundError
                    /\ notifications' = notifications
                    /\ sent_emails' = sent_emails
                    /\ Len(ContextCalls)' = 0
                    /\ Len(AdapterInvocations)' = 0]_vars

\* an update_notification call with an id the backend does not hold, while it
\* holds other notifications
C30_Witness ==
    /\ last.op = "update_notification"
    /\ last.raised = NotificationNotFoundError
    /\ ~IsStored(last.id)
    /\ notifications # <<>>
    /\ Len(last.calls) = 1 /\ last.calls[1].fn = "persist_notification_update"

-----------------------------------------------------------------------------
(* The blocking and the cooperative service, given the same calls *)

\* The cooperative service runs on the variables, one await at a time. The same
\* call is made on a blocking service whose backend started equal; last holds
\* that call, its faults (env) and the world (w) the blocking service is left in.
TwinCall(op, id, env, w) == [op |-> op, id |-> id, env |-> env, w |-> w]

\* the world of the blocking service before the next call
BlockingWorld ==
    IF last.op = "init" THEN World(notifications, sent_emails)
    ELSE World(last.w.notifications, last.w.sent_emails)

\* no call of the cooperative service is under way
Quiescent == gather \in {"idle", "returned"}

\* await service.send_pending_notifications(), made once
TwinSendPendingNotifications ==
    /\ gather = "idle"
    /\ ops < MaxOps
    /\ LET pending == get_all_pending_notifications(notifications, now) IN
       \E env \in Envs({pending[k].id : k \in 1..Len(pending)}) :
          /\ tasks' = [k \in 1..Len(pending) |-> NewTask(pending[k])]
          /\ last' = TwinCall("send_pending_notifications", 0, env,
                              send_pending_notifications(BlockingWorld, now, env).w)
    /\ lock' = FALSE
    /\ gather' = "running"
    /\ ops' = ops + 1
    /\ UNCHANGED <<notifications, detached, contexts, notification_adapters, sent_emails,
                   now, next_id>>

\* the faults that can act in a send of the notification id: mark_pending_as_failed
\* is called only after a send that raised, mark_pending_as_sent and
\* store_context_used only after one that returned
ActingEnvs(id) ==
    { env \in Envs({id}) :
        IF id \in env.send_raises
        THEN env.patched \subseteq {"mark_pending_as_failed"}
        ELSE env.patched \subseteq {"mark_pending_as_sent", "store_context_used"} }

\* the faults that can act in a call that sends only a due notification
SendEnvs(id, send_after) == IF IsDue(send_after, now) THEN ActingEnvs(id) ELSE {NoFaults}

\* await service.send(notification): no lock is passed
TwinSend ==
    /\ Quiescent
    /\ ops < MaxOps
    /\ \E notification \in Held :
       \E env \in ActingEnvs(notification.id) :
          /\ tasks' = <<NewTask(notification)>>
          /\ last' = TwinCall("send", notification.id, env,
                              send(BlockingWorld, notification, env))
    /\ gather' = "awaiting"
    /\ ops' = ops + 1
    /\ UNCHANGED <<notifications, detached, contexts, notification_adapters, sent_emails,
                   now, next_id, lock>>

\* the send of create_notification and update_notification: awaited when the
\* notification is due, with no lock
AwaitSendIfDue(notification) ==
    IF IsDue(notification.send_after, now)
    THEN tasks' = <<NewTask(notification)>> /\ gather' = "awaiting"
    ELSE tasks' = <<>> /\ gather' = gather

\* the clock stands still between the calls: a send_after is due or one tick away
TwinSendAfterInputs == {None, Some(now + 1)}
TwinUpdateInputs == {{}} \cup {{<<"send_after", s>>} : s \in TwinSendAfterInputs}

\* await service.create_notification(...)
TwinCreateNotification ==
    /\ Quiescent
    /\ ops < MaxOps
    /\ next_id <= MaxNotifications + 1
    /\ \E notification_type \in NotificationTypeInputs, context \in ContextInputs,
          send_after \in TwinSendAfterInputs :
       \E env \in SendEnvs(next_id, send_after) :
          LET ns == persist_notification(notifications, next_id, notification_type,
                                         context, send_after)
          IN /\ notifications' = ns
             /\ AwaitSendIfDue(ns[Len(ns)])
             /\ last' = TwinCall("create_notification", next_id, env,
                                 create_notification(BlockingWorld, next_id, notification_type,
                                                     context, send_after, now, env))
    /\ next_id' = next_id + 1
    /\ ops' = ops + 1
    /\ UNCHANGED <<detached, contexts, notification_adapters, sent_emails, now, lock>>

\* await service.update_notification(notification_id, ...)
TwinUpdateNotification ==
    /\ Quiescent
    /\ ops < MaxOps
    /\ \E i \in 1..Len(notifications), update_data \in TwinUpdateInputs :
       \E env \in SendEnvs(notifications[i].id,
                            ApplyUpdate(notifications[i], update_data).send_after) :
          LET notification == ApplyUpdate(notifications[i], update_data)
          IN /\ notifications' = [notifications EXCEPT ![i] = notification]
             /\ AwaitSendIfDue(notification)
             /\ last' = TwinCall("update_notification", notification.id, env,
                                 update_notification(BlockingWorld, notification.id,
                                                     update_data, now, env))
    /\ ops' = ops + 1
    /\ UNCHANGED <<detached, contexts, notification_adapters, sent_emails, now, next_id,
                   lock>>

\* await service.cancel_notification(notification_id)
TwinCancelNotification ==
    /\ Quiescent
    /\ ops < MaxOps
    /\ \E i \in 1..Len(notifications) :
          /\ notifications' = SubSeq(notifications, 1, i - 1)
                              \o SubSeq(notifications, i + 1, Len(notifications))
          /\ detached' = detached \cup {notifications[i]}
          /\ last' = TwinCall("cancel_notification", notifications[i].id, NoFaults,
                              cancel_notification(BlockingWorld, notifications[i].id))
    /\ tasks' = <<>>
    /\ ops' = ops + 1
    /\ UNCHANGED <<contexts, notification_adapters, sent_emails, now, next_id,
                   lock, gather>>

\* await service.mark_read(notification_id)
TwinMarkRead ==
    /\ Quiescent
    /\ ops < MaxOps
    /\ \E i \in 1..Len(notifications) :
          /\ notifications' = [notifications EXCEPT ![i].status = READ]
          /\ last' = TwinCall("mark_read", notifications[i].id, NoFaults,
                              mark_read(BlockingWorld, notifications[i].id))
    /\ tasks' = <<>>
    /\ ops' = ops + 1
    /\ UNCHANGED <<detached, contexts, notification_adapters, sent_emails, now, next_id,
                   lock, gather>>

\* the adapter's send and the backend's marking fail as for the blocking service
TwinAdapterSend(t) ==
    /\ t \in DOMAIN tasks
    /\ AdapterSendStep(t, tasks[t].notification.id \in last.env.send_raises)

\* the marking method, followed to its return: _store_notifications writes the
\* notifications the method has assigned and changes none of them, and its lock,
\* when one is passed, is released before the method returns
TwinMark(t) ==
    /\ t \in DOMAIN tasks
    /\ MarkStepUntil(t, tasks[t].pc \in last.env.patched, TRUE)

\* await service.send(notification) returns, or raises what send raised
TwinSendReturns ==
    /\ gather = "awaiting"
    /\ \A t \in DOMAIN tasks : tasks[t].pc = "done"
    /\ gather' = "returned"
    /\ UNCHANGED <<notifications, detached, contexts, notification_adapters, sent_emails,
                   now, next_id, ops, last, tasks, lock>>

NextTwin ==
    \/ TwinSendPendingNotifications
    \/ TwinSend
    \/ TwinCreateNotification
    \/ TwinUpdateNotification
    \/ TwinCancelNotification
    \/ TwinMarkRead
    \/ \E t \in 1..MaxTasks : TaskGetContext(t)
    \/ \E t \in 1..MaxTasks : TwinAdapterSend(t)
    \/ \E t \in 1..MaxTasks : TwinMark(t)
    \/ GatherReturns
    \/ TwinSendReturns

SpecTwin == InitAsync /\ [][NextTwin]_vars

\* the number of entries of the sequence that satisfy Test
Count(seq, Test(_)) == Cardinality({k \in 1..Len(seq) : Test(seq[k])})

\* the adapter invocations the cooperative call made for the notification
CooperativeInvocations(id) ==
    LET Of(k) == IF tasks[k].notification.id = id THEN tasks[k].invocations ELSE 0
        Sum[k \in 0..Len(tasks)] == IF k = 0 THEN 0 ELSE Sum[k - 1] + Of(k)
    IN Sum[Len(tasks)]

\* the adapter invocations the blocking call made for the notification
BlockingInvocations(id) ==
    LET Is(c) == c.fn = "adapter.send" /\ c.id = id IN Count(last.w.calls, Is)

\* the messages an adapter list delivered for the notification
Deliveries(emails, id) ==
    LET Of(i) == LET Is(e) == e[1] = id IN Count(emails[i], Is)
        Sum[i \in 0..Len(emails)] == IF i = 0 THEN 0 ELSE Sum[i - 1] + Of(i)
    IN Sum[Len(emails)]

\* what the cooperative call raised to its caller
CooperativeRaised ==
    IF tasks = <<>> THEN NoError
    ELSE IF last.op # "send_pending_notifications" THEN tasks[1].raised
    ELSE IF \E t \in DOMAIN tasks : Escaped(t)
    THEN tasks[CHOOSE t \in DOMAIN tasks : Escaped(t)].raised
    ELSE NoError

TwinIds == {notifications[i].id : i \in 1..Len(notifications)} \cup CancelledIds

-----------------------------------------------------------------------------
(* Claims about repeated runs of send_pending_notifications *)

\* some adapter has delivered the notification of this id
DeliveredBefore(id) ==
    \E i \in 1..Len(sent_emails) : \E k \in 1..Len(sent_emails[i]) : sent_emails[i][k][1] = id

\* the calls hand the notification of this id to an adapter
HandedOver(calls, id) ==
    \E k \in 1..Len(calls) : calls[k].fn = "adapter.send" /\ calls[k].id = id

\* the step is a run of send_pending_notifications
SendPendingRun ==
    /\ ops' = ops + 1
    /\ last'.op = "send_pending_notifications"

\* C36 as stated: a run of send_pending_notifications hands to an adapter no
\* notification that an adapter has delivered before.
C36_AsStated ==
    [][SendPendingRun =>
          \A id \in StoredIds : DeliveredBefore(id) => ~HandedOver(last'.calls, id)]_vars

\* C36: a run of send_pending_notifications hands to an adapter only
\* notifications that are stored, PENDING_SEND and due when it starts: a
\* notification delivered and marked SENT is never handed over again, and of
\* two runs in succession the second hands over only what the first left
\* PENDING_SEND.
C36_OnlyPendingIsHandedOver ==
    [][SendPendingRun =>
          \A id \in Ids \cup {n.id : n \in detached} :
             HandedOver(last'.calls, id) =>
                /\ IsStored(id)
                /\ Stored(id).status = PENDING_SEND
                /\ IsDue(Stored(id).send_after, now)]_vars

\* a second run after a run that delivered and marked a notification: it
\* hands nothing to an adapter
C36_Witness ==
    /\ ops = 2
    /\ last.op = "send_pending_notifications"
    /\ Len(AdapterInvocations) = 0
    /\ \E id \in StoredIds :
          /\ Stored(id).status = SENT
          /\ \E i \in 1..Len(sent_emails) :
                Len(sent_emails[i]) = 1 /\ sent_emails[i][1][1] = id

-----------------------------------------------------------------------------
(* Claims about a cancellation during the cooperative send_pending_notifications *)

\* a notification was cancelled while still PENDING_SEND, after the call had
\* fetched it
CancelledWhilePending ==
    \E n \in detached :
       /\ n.status = PENDING_SEND
       /\ \E t \in DOMAIN tasks : tasks[t].notification.id = n.id

\* C38: when a notification is cancelled after the cooperative
\* send_pending_notifications fetched it and before its task marked it, the
\* call does not raise, and the cancelled notification is not stored again.
C38_AsStated ==
    CancelledWhilePending =>
       /\ gather # "raised"
       /\ \A n \in detached : ~IsStored(n.id)

-----------------------------------------------------------------------------
(* Claims about the pending and the future query together *)

\* how many notifications of the list have this id
Listed(list, id) == Cardinality({k \in 1..Len(list) : list[k].id = id})

\* the list holds a notification of this id
InList(list, id) == \E k \in 1..Len(list) : list[k].id = id

\* the two lists hold stored notifications only, as many as there are
\* PENDING_SEND notifications: each of these in one list, the due ones in the
\* pending list, and no other notification in either
PartitionPending(pending, future, clock) ==
    /\ \A k \in 1..Len(pending) : IsStored(pending[k].id) /\ pending[k] = Stored(pending[k].id)
    /\ \A k \in 1..Len(future) : IsStored(future[k].id) /\ future[k] = Stored(future[k].id)
    /\ Len(pending) + Len(future) =
          Cardinality({i \in 1..Len(notifications) : notifications[i].status = PENDING_SEND})
    /\ \A i \in 1..Len(notifications) :
          IF notifications[i].status # PENDING_SEND
          THEN ~InList(pending, notifications[i].id) /\ ~InList(future, notifications[i].id)
          ELSE IF IsDue(notifications[i].send_after, clock)
          THEN InList(pending, notifications[i].id) /\ ~InList(future, notifications[i].id)
          ELSE ~InList(pending, notifications[i].id) /\ InList(future, notifications[i].id)

\* C40: at every clock value get_all_pending_notifications and
\* get_all_future_notifications partition the stored PENDING_SEND
\* notifications: each is returned by exactly one of the two, the pending query
\* when send_after is null or not after the clock, the future query otherwise,
\* and a notification of another status is returned by neither.
C40_PendingAndFuturePartition ==
    \A clock \in 0..(MaxClock + 1) :
       PartitionPending(get_all_pending_notifications(notifications, clock),
                        get_all_future_notifications(notifications, clock), clock)

\* a store with a notification in the pending list and another, whose
\* send_after is the present instant or a later one, that changes lists with
\* the clock
C40_Witness ==
    /\ Len(get_all_pending_notifications(notifications, now)) >= 1
    /\ \E i \in 1..Len(notifications) :
          /\ notifications[i].status = PENDING_SEND
          /\ notifications[i].send_after # None
          /\ Listed(get_all_future_notifications(notifications, now - 1),
                    notifications[i].id) = 1
          /\ Listed(get_all_pending_notifications(notifications, now),
                    notifications[i].id) = 1

-----------------------------------------------------------------------------
(* The plugin descriptors, the construction of the service and the task shims *)

ValueError == "ValueError"
ImportError == "ImportError"
AttributeError == "AttributeError"
TypeError == "TypeError"
UnboundLocalError == "UnboundLocalError"

\* isinstance(e, ValueError): NotificationError and its subclasses derive from it
IsValueError(e) == e \in {ValueError, NotificationError}

\* the classes of the stub modules: the interface each implements, the number
\* of positional arguments its __init__ takes, and whether its __init__ raises
Class(implements, min_args, max_args, init_raises) ==
    [implements |-> implements, min_args |-> min_args, max_args |-> max_args,
     init_raises |-> init_raises]

AnyArgs == 9

Classes ==
    [FakeFileBackend |-> Class("backend", 0, 1, FALSE),
     InvalidBackend |-> Class("object", 0, AnyArgs, FALSE),
     FakeEmailAdapter |-> Class("adapter", 2, 4, FALSE),
     FakeAsyncEmailAdapter |-> Class("deferred_adapter", 2, 4, FALSE),
     InvalidAdapter |-> Class("object", 0, AnyArgs, FALSE),
     FakeTemplateRenderer |-> Class("renderer", 0, 0, FALSE),
     InvalidTemplateRenderer |-> Class("object", 0, 0, FALSE),
     FakeTemplateRendererWithExceptionOnInit |-> Class("renderer", 0, 0, TRUE)]

\* isinstance(instance, BaseNotificationBackend / BaseNotificationAdapter /
\* BaseNotificationTemplateRenderer); AsyncBaseNotificationAdapter derives from
\* BaseNotificationAdapter
Implements(cls, interface) ==
    \/ Classes[cls].implements = interface
    \/ interface = "adapter" /\ Classes[cls].implements = "deferred_adapter"

\* a dotted path: the module before the last dot ("" when the string has no dot,
\* "invalid" when no such module exists) and the name after it
Path(module, attr) == [module |-> module, attr |-> attr]

\* a descriptor: a dotted path, or a (dotted path, kwargs) pair
Descriptor(path, is_tuple) == [path |-> path, is_tuple |-> is_tuple]

\* descriptor[0]: the path of a pair, the first character of a string
FirstItem(descriptor) ==
    IF descriptor.is_tuple THEN descriptor.path ELSE Path("", "v")

Outcome(raised, value) == [raised |-> raised, value |-> value]

\* module_name, class_name = import_string.rsplit(".", 1); __import__; getattr
import_class(path) ==
    IF path.module = "" THEN Outcome(ValueError, None)
    ELSE IF path.module = "invalid" THEN Outcome(ImportError, None)
    ELSE IF path.attr \notin DOMAIN Classes THEN Outcome(AttributeError, None)
    ELSE Outcome(NoError, path.attr)

\* cls(*args) with n positional arguments
Instantiate(cls, n) ==
    IF n < Classes[cls].min_args \/ n > Classes[cls].max_args THEN Outcome(TypeError, None)
    ELSE IF Classes[cls].init_raises THEN Outcome(AdapterError, None)
    ELSE Outcome(NoError, cls)

\* except (ImportError, ModuleNotFoundError): raise ValueError; any other
\* exception of the import goes on
ImportOutcome(imported) ==
    IF imported.raised = ImportError THEN Outcome(ValueError, None) ELSE imported

\* except Exception: raise ValueError, then the isinstance check
InstanceOutcome(built, interface) ==
    IF built.raised # NoError THEN Outcome(ValueError, None)
    ELSE IF ~Implements(built.value, interface) THEN Outcome(ValueError, None)
    ELSE built

\* the import, instantiation and isinstance steps that the resolvers share
Resolved(imported, n, interface) ==
    IF imported.raised # NoError THEN imported
    ELSE InstanceOutcome(Instantiate(imported.value, n), interface)

resolve(path, n, interface) == Resolved(ImportOutcome(import_class(path)), n, interface)

get_notification_backend(backend) == resolve(backend, 0, "backend")

get_template_renderer(template_renderer) == resolve(template_renderer.path, 0, "renderer")

\* the first failure of two steps, else the second step's outcome
Then(first, second) == IF first.raised # NoError THEN first ELSE second

\* BaseNotificationAdapter.__init__: the adapter resolves its backend and its renderer
adapter_init(backend, template_renderer) ==
    Then(get_notification_backend(backend), get_template_renderer(template_renderer))

\* adapter_cls(template_renderer, backend, backend_kwargs, config, **adapter_kwargs):
\* the stub classes that are no adapters have an __init__ of their own
AdapterInstance(cls, backend, template_renderer) ==
    IF Classes[cls].implements \in {"adapter", "deferred_adapter"}
    THEN Then(Instantiate(cls, 4),
              Then(adapter_init(backend, template_renderer), Outcome(NoError, cls)))
    ELSE Instantiate(cls, 4)

AdapterResolved(imported, backend, template_renderer) ==
    IF imported.raised # NoError THEN imported
    ELSE InstanceOutcome(AdapterInstance(imported.value, backend, template_renderer),
                         "adapter")

\* one turn of the loop of get_notification_adapters
get_notification_adapter(adapter, template_renderer, backend) ==
    AdapterResolved(ImportOutcome(import_class(adapter.path)), backend, template_renderer)

\* default_adapters.append(adapter), unless the turn raised
Appended(built, one) ==
    IF built.raised # NoError THEN built
    ELSE IF one.raised # NoError THEN one
    ELSE Outcome(NoError, Append(built.value, one.value))

\* get_notification_adapters: the loop over the entries, at most two here
get_notification_adapters(adapters, backend) ==
    IF Len(adapters) = 1
    THEN Appended(Outcome(NoError, <<>>),
                  get_notification_adapter(adapters[1][1], adapters[1][2], backend))
    ELSE Appended(Appended(Outcome(NoError, <<>>),
                           get_notification_adapter(adapters[1][1], adapters[1][2], backend)),
                  get_notification_adapter(adapters[2][1], adapters[2][2], backend))

\* every entry is a pair of a string and of a string or a (string, dict) pair
check_is_adapters_tuple_iterable(adapters) ==
    \A k \in 1..Len(adapters) : ~adapters[k][1].is_tuple

\* self.notification_adapters = get_notification_adapters(...), or
\* raise NotificationError("Invalid notification adapters")
ServiceAdapters(adapters, backend) ==
    IF check_is_adapters_tuple_iterable(adapters)
    THEN get_notification_adapters(adapters, backend)
    ELSE Outcome(NotificationError, None)

ServiceOutcome(b, a) ==
    IF b.raised # NoError THEN Outcome(b.raised, None)
    ELSE IF a.raised # NoError THEN Outcome(a.raised, None)
    ELSE Outcome(NoError, [backend |-> b.value, adapters |-> a.value])

\* NotificationService.__init__, given descriptors
NotificationService(adapters, backend) ==
    ServiceOutcome(get_notification_backend(backend), ServiceAdapters(adapters, backend))

AdapterClassOutcome(imported) ==
    IF imported.raised # NoError THEN imported
    ELSE IF ~Implements(imported.value, "adapter") THEN Outcome(ValueError, None)
    ELSE imported

\* get_notification_adapter_cls: the class of an adapter path
get_notification_adapter_cls(path) == AdapterClassOutcome(ImportOutcome(import_class(path)))

\* what a task shim did: the exception that reached the task system, the one it
\* logged, whether a service was constructed and the orchestration calls it made
Shim(raised, logged, constructed, invoked) ==
    [raised |-> raised, logged |-> logged, constructed |-> constructed,
     invoked |-> invoked]

\* try: service = NotificationService(...); service.delayed_send(...)
\* except Exception: logger.exception(...)
TryDelayedSend(service, delayed_send_raises) ==
    IF service.raised # NoError THEN Shim(NoError, service.raised, FALSE, 0)
    ELSE IF delayed_send_raises THEN Shim(NoError, NotificationSendError, TRUE, 1)
    ELSE Shim(NoError, NoError, TRUE, 1)

\* adapters_import_tuple = ((adapters[0][0][0], ...), (adapters[0][1][0], ...))
adapters_import_tuple(adapters) ==
    <<Descriptor(FirstItem(adapters[1][1]), TRUE),
      Descriptor(FirstItem(adapters[1][2]), TRUE)>>

SendNotificationOutcome(adapter_cls, adapters, backend, delayed_send_raises) ==
    IF adapter_cls.raised # NoError THEN Shim(adapter_cls.raised, NoError, FALSE, 0)
    ELSE IF ~Implements(adapter_cls.value, "deferred_adapter")
    THEN Shim(NoError, NoError, FALSE, 0)
    ELSE TryDelayedSend(NotificationService(<<adapters_import_tuple(adapters)>>, backend),
                        delayed_send_raises)

\* tasks.background_tasks.send_notification; delayed_send_raises is what the
\* orchestration method does once it is called
send_notification(adapters, backend, delayed_send_raises) ==
    SendNotificationOutcome(
        get_notification_adapter_cls(IF ~adapters[1][1].is_tuple THEN adapters[1][1].path
                                     ELSE FirstItem(adapters[1][1])),
        adapters, backend, delayed_send_raises)

\* NotificationService(...).send_pending_notifications(), outside any try
RunSendPending(service) ==
    IF service.raised # NoError THEN Shim(service.raised, NoError, FALSE, 0)
    ELSE Shim(NoError, NoError, TRUE, 1)

PeriodicOutcome(adapter_intances, adapters, backend) ==
    IF adapter_intances.raised # NoError
    THEN Shim(adapter_intances.raised, NoError, FALSE, 0)
    ELSE IF ~Implements(adapter_intances.value[1], "deferred_adapter")
    THEN Shim(UnboundLocalError, NoError, FALSE, 0)
    ELSE RunSendPending(NotificationService(adapters, backend))

\* tasks.periodic_tasks.periodic_send_pending_notifications
periodic_send_pending_notifications(adapters, backend) ==
    PeriodicOutcome(get_notification_adapters(adapters, backend), adapters, backend)

\* the dotted paths a configuration names
NoDot(attr) == Path("", attr)
NoModule(attr) == Path("invalid", attr)
Stub(attr) == Path("stubs", attr)

BackendPaths ==
    { NoDot("FakeFileBackend"), NoModule("backend"), Stub("MissingBackend"),
      Stub("FakeEmailAdapter"), Stub("InvalidBackend"), Stub("FakeFileBackend") }

AdapterPaths ==
    { NoDot("FakeEmailAdapter"), NoModule("adapter"), Stub("MissingAdapter"),
      Stub("FakeFileBackend"), Stub("InvalidAdapter"), Stub("FakeEmailAdapter"),
      Stub("FakeAsyncEmailAdapter") }

RendererPaths ==
    { NoDot("FakeTemplateRenderer"), NoModule("template_renderer"),
      Stub("MissingTemplateRenderer"), Stub("InvalidTemplateRenderer"),
      Stub("FakeTemplateRendererWithExceptionOnInit"), Stub("FakeTemplateRenderer") }

Descriptors(paths) == { Descriptor(path, is_tuple) : path \in paths, is_tuple \in BOOLEAN }

AdapterEntries ==
    { <<adapter, template_renderer>> : adapter \in Descriptors(AdapterPaths),
                                       template_renderer \in Descriptors(RendererPaths) }

ValidEntry ==
    <<Descriptor(Stub("FakeEmailAdapter"), FALSE), Descriptor(Stub("FakeTemplateRenderer"), FALSE)>>

\* one adapter entry, or a valid entry followed by any entry
AdapterLists == { <<entry>> : entry \in AdapterEntries }
                    \cup { <<ValidEntry, entry>> : entry \in AdapterEntries }

Configured(op, adapters, backend, raised, logged, constructed, invoked) ==
    [op |-> op, adapters |-> adapters, backend |-> backend, raised |-> raised,
     logged |-> logged, constructed |-> constructed, invoked |-> invoked]

\* NotificationService(notification_adapters=adapters, notification_backend=backend)
Construct ==
    /\ QueryFrame
    /\ \E adapters \in AdapterLists, backend \in BackendPaths :
       \E service \in {NotificationService(adapters, backend)} :
          last' = Configured("NotificationService", adapters, backend, service.raised,
                             NoError, service.raised = NoError, 0)

\* the task system runs send_notification(notification, context, adapters, backend)
SendNotificationTask ==
    /\ QueryFrame
    /\ \E entry \in AdapterEntries, backend \in BackendPaths, delayed_send_raises \in BOOLEAN :
       \E shim \in {send_notification(<<entry>>, backend, delayed_send_raises)} :
          last' = Configured("send_notification", <<entry>>, backend, shim.raised,
                             shim.logged, shim.constructed, shim.invoked)

\* the task system runs periodic_send_pending_notifications(adapters, backend)
PeriodicSendPendingNotificationsTask ==
    /\ QueryFrame
    /\ \E adapters \in AdapterLists, backend \in BackendPaths :
       \E shim \in {periodic_send_pending_notifications(adapters, backend)} :
          last' = Configured("periodic_send_pending_notifications", adapters, backend,
                             shim.raised, shim.logged, shim.constructed, shim.invoked)

InitConfig ==
    /\ notifications = <<>>
    /\ detached = {}
    /\ contexts = [test_context |-> "create_notification_context"]
    /\ notification_adapters = <<>>
    /\ sent_emails = <<>>
    /\ now = 1
    /\ next_id = 1
    /\ ops = 0
    /\ last = NoCall
    /\ tasks = <<>>
    /\ lock = FALSE
    /\ gather = "idle"

NextConfig ==
    \/ Construct
    \/ SendNotificationTask
    \/ PeriodicSendPendingNotificationsTask

SpecConfig == InitConfig /\ [][NextConfig]_vars

\* the path can be imported, the class instantiated with n positional arguments,
\* and the instance implements the interface
Resolvable(path, n, interface) ==
    /\ path.module \notin {"", "invalid"}
    /\ path.attr \in DOMAIN Classes
    /\ Classes[path.attr].min_args <= n /\ n <= Classes[path.attr].max_args
    /\ ~Classes[path.attr].init_raises
    /\ Implements(path.attr, interface)

ValidBackend(backend) == Resolvable(backend, 0, "backend")
ValidRenderer(template_renderer) == Resolvable(template_renderer.path, 0, "renderer")
ValidAdapter(adapter, interface) == Resolvable(adapter.path, 4, interface)

ValidConfiguration(adapters, backend) ==
    /\ ValidBackend(backend)
    /\ \A k \in 1..Len(adapters) :
          ValidAdapter(adapters[k][1], "adapter") /\ ValidRenderer(adapters[k][2])

\* C31: (as stated) when the backend, an adapter or a renderer descriptor cannot
\* be imported, cannot be instantiated or does not implement its interface, the
\* constructor raises a ValueError and no service is constructed.
C31_AsStated ==
    (last.op = "NotificationService" /\ ~ValidConfiguration(last.adapters, last.backend)) =>
        (IsValueError(last.raised) /\ ~last.constructed)

\* C34: (as stated) no exception of a task shim reaches the task system.
C34_AsStated ==
    last.op \in {"send_notification", "periodic_send_pending_notifications"} =>
        last.raised = NoError

\* C35: (as stated) given a valid deferred adapter descriptor, a valid renderer
\* descriptor and a valid backend, send_notification constructs a service and
\* invokes delayed_send exactly once.
C35_AsStated ==
    (/\ last.op = "send_notification"
     /\ ValidAdapter(last.adapters[1][1], "deferred_adapter")
     /\ ValidRenderer(last.adapters[1][2])
     /\ ValidBackend(last.backend)) =>
        (last.constructed /\ last.invoked = 1)

-----------------------------------------------------------------------------
(* The registry of context functions *)

\* the keys the tests register, and one nothing is registered under
ContextKeys == {"test_context", "integration_test"}
LookupKeys == ContextKeys \cup {"non_registered_context"}

ContextStore ==
    <<[id |-> 1, notification_type |-> EMAIL, context_name |-> "test_context",
       context_kwargs |-> [test |-> "test"], send_after |-> None,
       status |-> PENDING_SEND, context_used |-> None, adapter_used |-> None],
      [id |-> 2, notification_type |-> EMAIL, context_name |-> "integration_test",
       context_kwargs |-> [context_kwargs |-> [test |-> "test"]], send_after |-> None,
       status |-> PENDING_SEND, context_used |-> None, adapter_used |-> None]>>

\* the registrations made so far, in order, and the last call
Registered(op, key, func, id, w, log) ==
    [op |-> op, key |-> key, func |-> func, id |-> id, raised |-> w.raised,
     calls |-> w.calls, log |-> log]

InitContexts ==
    /\ notifications = ContextStore
    /\ detached = {}
    /\ contexts = [k \in {} |-> None]
    /\ notification_adapters = <<FakeEmailAdapter>>
    /\ sent_emails = <<<<>>>>
    /\ now = 1
    /\ next_id = Len(ContextStore) + 1
    /\ ops = 0
    /\ last = Registered("init", "", "", 0, World(<<>>, <<>>), <<>>)
    /\ tasks = <<>>
    /\ lock = FALSE
    /\ gather = "idle"

\* @register_context(key) applied to a function
RegisterContext ==
    /\ Len(last.log) < MaxRegistrations
    /\ \E key \in ContextKeys, func \in ContextFunctions :
          /\ contexts' = register_function(contexts, key, func)
          /\ last' = Registered("register_context", key, func, 0,
                                World(notifications, sent_emails),
                                Append(last.log, [key |-> key, func |-> func]))
    /\ UNCHANGED <<notifications, detached, notification_adapters, sent_emails, now,
                   next_id, ops, tasks, lock, gather>>

SendRegistered ==
    /\ ops < MaxOps
    /\ \E notification \in Held :
          LET w == send(World(notifications, sent_emails), notification, NoFaults)
          IN /\ Commit(w)
             /\ last' = Registered("send", notification.context_name, "", notification.id,
                                   w, last.log)
    /\ UNCHANGED <<detached, next_id>>

NextContexts ==
    \/ RegisterContext
    \/ SendRegistered

SpecContexts == InitContexts /\ [][NextContexts]_vars

\* the function of the latest registration under a key, None when there is none
LatestRegistered(log, key) ==
    IF \A i \in 1..Len(log) : log[i].key # key THEN None
    ELSE Some(log[CHOOSE i \in 1..Len(log) :
                     /\ log[i].key = key
                     /\ \A j \in (i + 1)..Len(log) : log[j].key # key].func)

CallsOf(calls, fn) == {i \in 1..Len(calls) : calls[i].fn = fn}

\* C32: a key holds at most one context function, the one registered last
\* under it, whatever was registered under other keys and however often the
\* same pair was registered; registering never raises; a key never registered
\* holds nothing, and sending a notification that names it fails at context
\* generation, before any adapter is asked to send.
C32_RegistryLastWriteWins ==
    /\ \A key \in LookupKeys : get_function(contexts, key) = LatestRegistered(last.log, key)
    /\ last.op = "register_context" => last.raised = NoError
    /\ (last.op = "send" /\ LatestRegistered(last.log, last.key) = None) =>
          /\ \E i \in CallsOf(last.calls, "get_notification_context") :
                last.calls[i].result = NotificationContextGenerationError
          /\ CallsOf(last.calls, "adapter.send") = {}

\* a key registered twice with different functions, and a notification sent
\* whose key nothing was registered under
C32_Witness ==
    /\ \E i, j \in 1..Len(last.log) :
          /\ i < j
          /\ last.log[i].key = last.log[j].key
          /\ last.log[i].func # last.log[j].func
    /\ last.op = "send"
    /\ LatestRegistered(last.log, last.key) = None

-----------------------------------------------------------------------------
(* context_kwargs and the storage file *)

\* a key or a value of a dict, by its Python type; a list carries its items
Key(kind, text) == [kind |-> kind, text |-> text]
Value(kind, text, items) == [kind |-> kind, text |-> text, items |-> items]
Entry(key, value) == [key |-> key, value |-> value]

\* what json.dump writes without a default hook
IsJsonLeaf(value) == value.kind \in {"str", "int"}
IsJsonValue(value) ==
    \/ IsJsonLeaf(value)
    \/ value.kind = "list" /\ \A k \in 1..Len(value.items) : IsJsonLeaf(value.items[k])

\* string keys and JSON values, at every depth
IsJsonSafe(kwargs) ==
    \A k \in 1..Len(kwargs) : kwargs[k].key.kind = "str" /\ IsJsonValue(kwargs[k].value)

\* json.dump accepts the keys it can coerce to strings
IsDumpable(kwargs) ==
    \A k \in 1..Len(kwargs) : kwargs[k].key.kind \in {"str", "int"} /\ IsJsonValue(kwargs[k].value)

\* the object json.dump writes for a dict: an int key becomes its decimal string
json_dump(kwargs) ==
    [k \in 1..Len(kwargs) |-> Entry(Key("str", kwargs[k].key.text), kwargs[k].value)]

\* NotificationContextDict(kwargs): __setitem__ for every item
NotificationContextDict(kwargs) ==
    IF \E k \in 1..Len(kwargs) :
          \/ kwargs[k].key.kind # "str"
          \/ kwargs[k].value.kind \notin {"int", "str", "list"}
          \/ /\ kwargs[k].value.kind = "list"
             /\ \E j \in 1..Len(kwargs[k].value.items) :
                   kwargs[k].value.items[j].kind # "context_dict"
    THEN Outcome(TypeError, None)
    ELSE Outcome(NoError, kwargs)

\* FakeFileBackend._store_notifications: the file is opened for writing, which
\* empties it, and json.dump raises at the first value it cannot write
store_notifications(w) ==
    IF \A i \in 1..Len(w.notifications) : IsDumpable(w.notifications[i].context_kwargs)
    THEN w
    ELSE Raise(w, TypeError)

\* the file after the write: every notification, or a text cut short
FileAfter(w) ==
    IF w.raised = TypeError THEN None
    ELSE Some([i \in 1..Len(w.notifications) |->
                  [id |-> w.notifications[i].id,
                   context_kwargs |-> json_dump(w.notifications[i].context_kwargs)]])

\* a backend write of the service call: the list changes first, then the file
AfterWrite(w) == IF w.raised # NoError THEN w ELSE store_notifications(w)

KwargsInputs ==
    { <<Entry(Key("str", "test"), Value("str", "test", <<>>))>>,
      <<Entry(Key("str", "items"), Value("list", "", <<Value("str", "a", <<>>)>>))>>,
      <<Entry(Key("int", "1"), Value("str", "x", <<>>))>>,
      <<Entry(Key("tuple", "(1, 2)"), Value("str", "x", <<>>))>>,
      <<Entry(Key("str", "user"), Value("uuid", "uuid4()", <<>>))>>,
      <<Entry(Key("str", "o"), Value("object", "object()", <<>>))>>,
      <<Entry(Key("str", "items"), Value("list", "", <<Value("object", "object()", <<>>)>>))>> }

\* the last call: the kwargs it was given, whether the caller built a
\* NotificationContextDict of them first, and the file it left
Kwargs(op, id, kwargs, wrapped, raised, file) ==
    [op |-> op, id |-> id, kwargs |-> kwargs, wrapped |-> wrapped, raised |-> raised,
     file |-> file]

InitKwargs ==
    /\ notifications = <<>>
    /\ detached = {}
    /\ contexts = [test_context |-> "create_notification_context"]
    /\ notification_adapters = <<FakeEmailAdapter>>
    /\ sent_emails = <<<<>>>>
    /\ now = 1
    /\ next_id = 1
    /\ ops = 0
    /\ last = Kwargs("init", 0, <<>>, FALSE, NoError, Some(<<>>))
    /\ tasks = <<>>
    /\ lock = FALSE
    /\ gather = "idle"

\* the caller's NotificationContextDict raised: the service is not called
NotCalled(op, id, kwargs) ==
    /\ last' = Kwargs(op, id, kwargs, TRUE, TypeError, last.file)
    /\ UNCHANGED <<notifications, sent_emails, ops, contexts, notification_adapters, now,
                   tasks, lock, gather>>

Written(op, id, kwargs, wrapped, w) ==
    /\ Commit(w)
    /\ last' = Kwargs(op, id, kwargs, wrapped, w.raised,
                      IF w.raised \in {NoError, TypeError} THEN FileAfter(w) ELSE last.file)

\* create_notification of a notification for later, with these context_kwargs
CreateWithKwargs ==
    /\ ops < MaxOps
    /\ next_id <= MaxNotifications
    /\ \E kwargs \in KwargsInputs, wrapped \in BOOLEAN :
          IF wrapped /\ NotificationContextDict(kwargs).raised # NoError
          THEN NotCalled("create_notification", next_id, kwargs) /\ UNCHANGED next_id
          ELSE /\ Written("create_notification", next_id, kwargs, wrapped,
                          AfterWrite(create_notification(
                              World(notifications, sent_emails), next_id, EMAIL,
                              [context_name |-> "test_context", context_kwargs |-> kwargs],
                              Some(now + 1), now, NoFaults)))
               /\ next_id' = next_id + 1
    /\ UNCHANGED detached

\* update_notification(notification_id, context_kwargs=...)
UpdateKwargs ==
    /\ ops < MaxOps
    /\ \E notification_id \in Ids, kwargs \in KwargsInputs, wrapped \in BOOLEAN :
          IF wrapped /\ NotificationContextDict(kwargs).raised # NoError
          THEN NotCalled("update_notification", notification_id, kwargs)
          ELSE Written("update_notification", notification_id, kwargs, wrapped,
                       AfterWrite(update_notification(
                           World(notifications, sent_emails), notification_id,
                           {<<"context_kwargs", kwargs>>}, now, NoFaults)))
    /\ UNCHANGED <<detached, next_id>>

NextKwargs ==
    \/ CreateWithKwargs
    \/ UpdateKwargs

SpecKwargs == InitKwargs /\ [][NextKwargs]_vars

\* C33: every notification the backend holds has JSON-safe context_kwargs,
\* string keys and JSON values at every depth, and a create_notification or
\* update_notification given other context_kwargs raises a type error (or
\* finds no notification to update).
C33_AsStated ==
    /\ \A i \in 1..Len(notifications) : IsJsonSafe(notifications[i].context_kwargs)
    /\ (last.op \in {"create_notification", "update_notification"}
          /\ ~IsJsonSafe(last.kwargs)) =>
             last.raised \in {TypeError, NotificationNotFoundError}

-----------------------------------------------------------------------------
(* Overlapping calls of the cooperative service on one backend *)

\* the second call, made while the first is running: the tasks after position
\* first are its own
Overlap(op, first) ==
    [op |-> op, id |-> 0, due |-> TRUE, raised |-> NoError, calls |-> <<>>,
     pending |-> <<>>, notifications_sent |-> first, notifications_failed |-> 0]

Overlapping == last.op \in {"send_pending_notifications", "update_notification"}

\* the task belongs to the second call
OfSecondCall(t) == Overlapping /\ t > last.notifications_sent

\* a second send_pending_notifications: it fetches what is pending now and
\* gathers its own tasks, with a lock of its own
OverlappingSendPendingNotifications ==
    /\ gather = "running"
    /\ ~Overlapping
    /\ tasks' = tasks \o
                 [k \in 1..Len(get_all_pending_notifications(notifications, now)) |->
                     NewTask(get_all_pending_notifications(notifications, now)[k])]
    /\ last' = Overlap("send_pending_notifications", Len(tasks))
    /\ UNCHANGED <<notifications, detached, contexts, notification_adapters, sent_emails,
                   now, next_id, ops, lock, gather>>

\* an update_notification that changes no modelled field: it stores the
\* notification, without a lock, and awaits send when the notification is due
OverlappingUpdateNotification ==
    /\ gather = "running"
    /\ ~Overlapping
    /\ \E notification \in Held :
          /\ IsStored(notification.id)
          /\ tasks' = IF IsDue(Stored(notification.id).send_after, now)
                       THEN Append(tasks, NewTask(Stored(notification.id)))
                       ELSE tasks
    /\ last' = Overlap("update_notification", Len(tasks))
    /\ UNCHANGED <<notifications, detached, contexts, notification_adapters, sent_emails,
                   now, next_id, ops, lock, gather>>

\* the lock of the second send_pending_notifications is held while one of its
\* tasks is inside the file write
SecondLock == \E t \in DOMAIN tasks : OfSecondCall(t) /\ tasks[t].pc = "_store_notifications"

\* a marking method of a task: update_notification passes no lock, so its
\* marking methods store and return without suspending
OverlapMark(t) ==
    MarkStepUntil(t, FALSE, OfSecondCall(t) /\ last.op = "update_notification")

OverlapAcquire(t) ==
    IF OfSecondCall(t)
    THEN /\ Running(t) /\ tasks[t].pc = "lock.acquire"
         /\ CanAcquire(SecondLock)
         /\ tasks' = [tasks EXCEPT ![t].pc = "_store_notifications"]
         /\ UNCHANGED <<notifications, detached, contexts, notification_adapters,
                        sent_emails, now, next_id, ops, last, lock, gather>>
    ELSE TaskAcquire(t)

OverlapStore(t) ==
    IF OfSecondCall(t)
    THEN /\ Running(t) /\ tasks[t].pc = "_store_notifications"
         /\ tasks' = [tasks EXCEPT ![t] = AfterStore(@)]
         /\ UNCHANGED <<notifications, detached, contexts, notification_adapters,
                        sent_emails, now, next_id, ops, last, lock, gather>>
    ELSE TaskStore(t)

NextOverlap ==
    \/ AsyncSendPendingNotifications
    \/ OverlappingSendPendingNotifications
    \/ OverlappingUpdateNotification
    \/ \E t \in 1..(2 * MaxTasks) : TaskGetContext(t)
    \/ \E t \in 1..(2 * MaxTasks) : TaskAdapterSend(t)
    \/ \E t \in 1..(2 * MaxTasks) : OverlapMark(t)
    \/ \E t \in 1..(2 * MaxTasks) : OverlapAcquire(t)
    \/ \E t \in 1..(2 * MaxTasks) : OverlapStore(t)
    \/ GatherReturns

\* the stores of InitAsync behind one adapter
InitOverlap ==
    /\ InitAsync
    /\ notification_adapters = <<FakeAsyncIOEmailAdapter>>

SpecOverlap == InitOverlap /\ [][NextOverlap]_vars

\* the task has handed its notification to an adapter
HandedToAdapter(t) == tasks[t].invocations >= 1

\* C37: when a cooperative send_pending_notifications overlaps with another
\* send_pending_notifications, or with the send of an update_notification, on
\* the same backend, no notification that was PENDING_SEND when the calls took
\* it is handed to an adapter by both.
C37_AsStated ==
    \A t1, t2 \in DOMAIN tasks :
       ( /\ ~OfSecondCall(t1) /\ OfSecondCall(t2)
         /\ tasks[t1].notification.id = tasks[t2].notification.id
         /\ tasks[t1].notification.status = PENDING_SEND
         /\ tasks[t2].notification.status = PENDING_SEND ) =>
            ~(HandedToAdapter(t1) /\ HandedToAdapter(t2))

-----------------------------------------------------------------------------
(* The file write of _store_notifications and its lock *)

\* what open or json.dump raises inside _store_notifications
WriteError == "OSError"

\* _store_notifications: open or json.dump raises; the statement lock.release()
\* that follows them is not reached
TaskStoreFails(t) ==
    /\ Running(t) /\ tasks[t].pc = "_store_notifications"
    /\ tasks' = [tasks EXCEPT ![t] = Finish(@, WriteError)]
    /\ UNCHANGED <<notifications, detached, contexts, notification_adapters, sent_emails,
                   now, next_id, ops, last, lock, gather>>

NextLock ==
    \/ AsyncSendPendingNotifications
    \/ \E t \in 1..MaxTasks : TaskGetContext(t)
    \/ \E t \in 1..MaxTasks : TaskAdapterSend(t)
    \/ \E t \in 1..MaxTasks : TaskMark(t)
    \/ \E t \in 1..MaxTasks : TaskAcquire(t)
    \/ \E t \in 1..MaxTasks : TaskStore(t)
    \/ \E t \in 1..MaxTasks : TaskStoreFails(t)
    \/ GatherReturns
    \/ GatherRaises

\* the event loop runs every task that can run
SpecLock == InitAsync /\ [][NextLock]_vars /\ WF_vars(NextLock)

\* C39: the lock is held only by a task inside the file write, and once the
\* cooperative send_pending_notifications has started its tasks, every task
\* eventually finishes and the call eventually ends.
C39_AsStated ==
    /\ [](lock => \E t \in DOMAIN tasks : tasks[t].pc = "_store_notifications")
    /\ (gather = "running") ~> (AllTasksDone /\ gather # "running")

====
